---- MODULE Spec2Model ----
\* A model of JSONHashify (src/unnamed/part_000): a JSON value is flattened into
\* a node table with CSR adjacency, a bounded-depth subtree is extracted from
\* every node, every node of every subtree is turned into its path[:value]
\* string, the string is shingled with a rolling hash, and the shingle
\* collection is thresholded into the feature set that feeds the sketch.
EXTENDS Integers, Sequences, FiniteSets, TLC

\* ------------------------------------------------------------------------
\* Text.  A JavaScript string is the sequence of its UTF-16 code units.
\* ------------------------------------------------------------------------
ROOT == <<36, 114, 111, 111, 116>>      \* "$root"
DOT == <<46>>                           \* "."
COLON == <<58>>                         \* ":"
LBRACKET == <<91>>                      \* "["
RBRACKET == <<93>>                      \* "]"
TXT_TRUE == <<116, 114, 117, 101>>      \* "true"
TXT_FALSE == <<102, 97, 108, 115, 101>> \* "false"
TXT_NULL == <<110, 117, 108, 108>>      \* "null"
KEY_A == <<97>>                         \* "a"
KEY_B == <<98>>                         \* "b"
KEY_X == <<120>>                        \* "x"
KEY_DOTTED == <<97, 46, 120>>           \* "a.x"

\* The decimal text of a non-negative integer, most significant digit first.
RECURSIVE Digits(_)
Digits(n) ==
    IF n < 10 THEN <<48 + n>> ELSE Digits(n \div 10) \o <<48 + (n % 10)>>

\* String(n) for an integer n.
NumberToString(n) ==
    IF n < 0 THEN <<45>> \o Digits(0 - n) ELSE Digits(n)

\* ------------------------------------------------------------------------
\* JSON values: the closed six-case variant.  An object is the sequence of its
\* members in Object.keys order; an array is the sequence of its elements.
\* ------------------------------------------------------------------------
Null == [t |-> "null"]
Bool(b) == [t |-> "boolean", b |-> b]
Num(n) == [t |-> "number", n |-> n]
Str(s) == [t |-> "string", s |-> s]
Arr(e) == [t |-> "array", e |-> e]
Obj(m) == [t |-> "object", m |-> m]
Member(k, v) == [k |-> k, v |-> v]

\* The value of a node that has none (JavaScript undefined).
Undefined == [t |-> "undefined"]

\* typeof v !== 'object' || v === null
IsLeafValue(v) == v.t \notin {"array", "object"}

\* TLC evaluates an operator argument where it is first used.  Evaluated(v) is
\* TRUE; a loop asks for it at the head of every iteration, so that the loop's
\* variables are evaluated iteration by iteration, as the program computes them.
Evaluated(v) == v = v

\* ------------------------------------------------------------------------
\* _buildCSRFromJSON.  Node ids are 0-based as in the source; the node with id
\* i is nodeMap[i + 1] and its child list is childLists[i + 1].
\* ------------------------------------------------------------------------
NodeData(id, path, value) == [id |-> id, path |-> path, value |-> value]

\* A mutant of processNode: the child is not entered in its parent's list.
processNodeUnlinked(st, item, itemKey, currentPath, parentId) ==
    LET elementPath == IF currentPath = ROOT THEN itemKey
                       ELSE currentPath \o DOT \o itemKey
        isLeaf == IsLeafValue(item)
        childId == st.nodeIdCounter
        nodeData == NodeData(childId, elementPath,
                             IF isLeaf THEN item ELSE Undefined)
    IN  [nodeIdCounter |-> childId + 1,
         nodeMap |-> Append(st.nodeMap, nodeData),
         childLists |-> Append(st.childLists, <<>>),
         stack |-> IF isLeaf THEN st.stack
                   ELSE Append(st.stack, [obj |-> item, path |-> elementPath,
                                          parentId |-> childId])]

\* The arrow function processNode, acting on the builder's variables st.
processNode(st, item, itemKey, currentPath, parentId) ==
    LET elementPath == IF currentPath = ROOT THEN itemKey
                       ELSE currentPath \o DOT \o itemKey
        isLeaf == IsLeafValue(item)
        childId == st.nodeIdCounter
        nodeData == NodeData(childId, elementPath,
                             IF isLeaf THEN item ELSE Undefined)
        lists == Append(st.childLists, <<>>)
    IN  [nodeIdCounter |-> childId + 1,
         nodeMap |-> Append(st.nodeMap, nodeData),
         childLists |-> [lists EXCEPT ![parentId + 1] = Append(@, childId)],
         stack |-> IF isLeaf THEN st.stack
                   ELSE Append(st.stack, [obj |-> item, path |-> elementPath,
                                          parentId |-> childId])]

\* A mutant of ElementPathKey: the index is written whatever the option says.
ElementPathKeyAlwaysIndexed(self, i) ==
    LBRACKET \o NumberToString(i) \o RBRACKET

\* A mutant of ElementPathKey: the index is never written.
ElementPathKeyNeverIndexed(self, i) == <<>>

\* elementPathKey: `[${i}]` when the array order is preserved, '' otherwise.
ElementPathKey(self, i) ==
    IF self.options.preserveArrayOrder
    THEN LBRACKET \o NumberToString(i) \o RBRACKET
    ELSE <<>>

\* for (i = 0; i < len; i++) over the elements of an array, from index i on.
RECURSIVE ArrayLoop(_, _, _, _, _, _)
ArrayLoop(self, st, obj, path, parentId, i) ==
    IF ~Evaluated(st) \/ i >= Len(obj.e) THEN st
    ELSE ArrayLoop(self,
                   processNode(st, obj.e[i + 1], ElementPathKey(self, i), path,
                               parentId),
                   obj, path, parentId, i + 1)

\* A mutant of IsIgnored: no key is skipped.
IsIgnoredNever(self, key) == FALSE

\* this.ignoreKeys.has(key)
IsIgnored(self, key) == key \in self.ignoreKeys

\* A mutant of ObjectLoop: a member's position is written after its key.
RECURSIVE ObjectLoopPositional(_, _, _, _, _, _)
ObjectLoopPositional(self, st, obj, path, parentId, i) ==
    IF ~Evaluated(st) \/ i >= Len(obj.m) THEN st
    ELSE LET key == obj.m[i + 1].k
         IN  IF IsIgnored(self, key)
             THEN ObjectLoopPositional(self, st, obj, path, parentId, i + 1)
             ELSE ObjectLoopPositional(self,
                      processNode(st, obj.m[i + 1].v, key \o NumberToString(i),
                                  path, parentId),
                      obj, path, parentId, i + 1)

\* for (i = 0; i < len; i++) over Object.keys(obj), from index i on.
RECURSIVE ObjectLoop(_, _, _, _, _, _)
ObjectLoop(self, st, obj, path, parentId, i) ==
    IF ~Evaluated(st) \/ i >= Len(obj.m) THEN st
    ELSE LET key == obj.m[i + 1].k
         IN  IF IsIgnored(self, key)
             THEN ObjectLoop(self, st, obj, path, parentId, i + 1)
             ELSE ObjectLoop(self,
                             processNode(st, obj.m[i + 1].v, key, path, parentId),
                             obj, path, parentId, i + 1)

\* A mutant of BuildStep: the iteration leaves the stack as it found it.
BuildStepWithoutPop(self, st) == st

\* One iteration of while (stack.length > 0): pop a frame, process its children.
BuildStep(self, st) ==
    LET frame == st.stack[Len(st.stack)]
        popped == [st EXCEPT !.stack = SubSeq(st.stack, 1, Len(st.stack) - 1)]
    IN  IF frame.obj.t = "array"
        THEN ArrayLoop(self, popped, frame.obj, frame.path, frame.parentId, 0)
        ELSE ObjectLoop(self, popped, frame.obj, frame.path, frame.parentId, 0)

\* A mutant of BuildInit: a scalar root is given no value.
BuildInitValueless(json) ==
    [nodeIdCounter |-> 1,
     nodeMap |-> <<NodeData(0, ROOT, Undefined)>>,
     childLists |-> << <<>> >>,
     stack |-> IF IsLeafValue(json) THEN <<>>
               ELSE <<[obj |-> json, path |-> ROOT, parentId |-> 0]>>]

\* The builder's variables before the while loop.
BuildInit(json) ==
    IF IsLeafValue(json)
    THEN [nodeIdCounter |-> 1,
          nodeMap |-> <<NodeData(0, ROOT, json)>>,
          childLists |-> << <<>> >>,
          stack |-> <<>>]
    ELSE [nodeIdCounter |-> 1,
          nodeMap |-> <<NodeData(0, ROOT, Undefined)>>,
          childLists |-> << <<>> >>,
          stack |-> <<[obj |-> json, path |-> ROOT, parentId |-> 0]>>]

RECURSIVE BuildLoop(_, _)
BuildLoop(self, st) ==
    IF Evaluated(st) /\ Len(st.stack) > 0
    THEN BuildLoop(self, BuildStep(self, st))
    ELSE st

\* rowPtr[0 .. i]: rowPtr[0] = 0, rowPtr[j + 1] = rowPtr[j] + children.length.
RECURSIVE RowPtrUpTo(_, _)
RowPtrUpTo(childLists, i) ==
    IF i = 0 THEN <<0>>
    ELSE LET prev == RowPtrUpTo(childLists, i - 1)
         IN  Append(prev, prev[i] + Len(childLists[i]))

\* A mutant of ColIndicesUpTo: each child list is written in front of the
\* lists written before it.
RECURSIVE ColIndicesUpToReversed(_, _)
ColIndicesUpToReversed(childLists, i) ==
    IF i = 0 THEN <<>>
    ELSE childLists[i] \o ColIndicesUpToReversed(childLists, i - 1)

\* colIndices after the sweep over ids 0 .. i - 1.
RECURSIVE ColIndicesUpTo(_, _)
ColIndicesUpTo(childLists, i) ==
    IF i = 0 THEN <<>>
    ELSE ColIndicesUpTo(childLists, i - 1) \o childLists[i]

\* The second pass: the CSR arrays from the child lists.
CSROf(st) ==
    [rowPtr |-> RowPtrUpTo(st.childLists, st.nodeIdCounter),
     colIndices |-> ColIndicesUpTo(st.childLists, st.nodeIdCounter),
     nodeMap |-> st.nodeMap]

buildCSRFromJSON(self, json) == CSROf(BuildLoop(self, BuildInit(json)))

\* ------------------------------------------------------------------------
\* _extractSubtrees: breadth-first traversal bounded by options.subtreeDepth.
\* A queue entry is <<nodeId, depth>>.
\* ------------------------------------------------------------------------
HasNode(csrData, id) == id >= 0 /\ id < Len(csrData.nodeMap)

\* for (i = childrenStart; i < childrenEnd; i++), from index i on.
RECURSIVE ChildLoop(_, _, _, _, _)
ChildLoop(csrData, b, i, childrenEnd, currentDepth) ==
    IF ~Evaluated(b) \/ i >= childrenEnd THEN b
    ELSE LET childId == csrData.colIndices[i + 1]
         IN  IF childId # -1 /\ HasNode(csrData, childId) /\ childId \notin b.visited
             THEN ChildLoop(csrData,
                            [b EXCEPT !.visited = @ \cup {childId},
                                      !.queue = Append(@, <<childId, currentDepth + 1>>)],
                            i + 1, childrenEnd, currentDepth)
             ELSE ChildLoop(csrData, b, i + 1, childrenEnd, currentDepth)

\* A mutant of BFSStep: children are enqueued at the depth bound too.
BFSStepInclusive(self, csrData, b) ==
    LET currentNodeId == b.queue[1][1]
        currentDepth == b.queue[1][2]
        shifted == [b EXCEPT !.queue = Tail(@),
                             !.subtreeNodeIds = Append(@, currentNodeId)]
    IN  IF currentDepth <= self.options.subtreeDepth
        THEN ChildLoop(csrData, shifted, csrData.rowPtr[currentNodeId + 1],
                       csrData.rowPtr[currentNodeId + 2], currentDepth)
        ELSE shifted

\* One iteration of while (queue.length > 0).
BFSStep(self, csrData, b) ==
    LET currentNodeId == b.queue[1][1]
        currentDepth == b.queue[1][2]
        shifted == [b EXCEPT !.queue = Tail(@),
                             !.subtreeNodeIds = Append(@, currentNodeId)]
    IN  IF currentDepth < self.options.subtreeDepth
        THEN ChildLoop(csrData, shifted, csrData.rowPtr[currentNodeId + 1],
                       csrData.rowPtr[currentNodeId + 2], currentDepth)
        ELSE shifted

\* The traversal's variables before the while loop.
BFSInit(csrData, startNodeId) ==
    IF ~HasNode(csrData, startNodeId) \/ startNodeId >= Len(csrData.rowPtr) - 1
    THEN [subtreeNodeIds |-> <<>>, visited |-> {}, queue |-> <<>>]
    ELSE [subtreeNodeIds |-> <<>>, visited |-> {startNodeId},
          queue |-> << <<startNodeId, 0>> >>]

RECURSIVE BFSLoop(_, _, _)
BFSLoop(self, csrData, b) ==
    IF Evaluated(b) /\ Len(b.queue) > 0
    THEN BFSLoop(self, csrData, BFSStep(self, csrData, b))
    ELSE b

\* A mutant of extractSubtrees: the start node itself is left out.
extractSubtreesWithoutStart(self, csrData, startNodeId) ==
    Tail(BFSLoop(self, csrData, BFSInit(csrData, startNodeId)).subtreeNodeIds)

extractSubtrees(self, csrData, startNodeId) ==
    BFSLoop(self, csrData, BFSInit(csrData, startNodeId)).subtreeNodeIds

\* ------------------------------------------------------------------------
\* Rolling hash arithmetic.  The source computes in IEEE doubles; every
\* product it forms is below 2^53, so the arithmetic is exact.  MulMod forms
\* the same residue with intermediate values below 2^31.
\* ------------------------------------------------------------------------
ROLLING_PRIME_BASE == 257
ROLLING_PRIME_MODULUS == 1000000007

\* (a * b) % ROLLING_PRIME_MODULUS for 0 <= a < ROLLING_PRIME_MODULUS, b >= 0.
RECURSIVE MulMod(_, _)
MulMod(a, b) ==
    IF b = 0 THEN 0
    ELSE LET h == MulMod(a, b \div 2)
             d == (h + h) % ROLLING_PRIME_MODULUS
         IN  IF b % 2 = 1 THEN (d + a) % ROLLING_PRIME_MODULUS ELSE d

\* The constructor's loop: ROLLING_PRIME_BASE^(k-1) % ROLLING_PRIME_MODULUS.
RECURSIVE RollingHashPower(_)
RollingHashPower(k) ==
    IF k <= 1 THEN 1
    ELSE MulMod(RollingHashPower(k - 1), ROLLING_PRIME_BASE)

\* for (j = 0; j < n; j++) h = (h * primeBase + s.charCodeAt(j)) % primeModulus,
\* from index j on.
RECURSIVE PolyLoop(_, _, _, _)
PolyLoop(s, j, n, h) ==
    IF ~Evaluated(h) \/ j >= n THEN h
    ELSE PolyLoop(s, j + 1, n,
                  (MulMod(h, ROLLING_PRIME_BASE) + s[j + 1]) % ROLLING_PRIME_MODULUS)

\* A mutant of Roll: the outgoing character's term is not removed.
RollWithoutRemoval(power, currentHash, charOutCode, charInCode) ==
    (MulMod(currentHash, ROLLING_PRIME_BASE) + charInCode) % ROLLING_PRIME_MODULUS

\* One remove-shift-add update of the rolling hash.
Roll(power, currentHash, charOutCode, charInCode) ==
    LET termToRemove == MulMod(power, charOutCode)
        h1 == (currentHash - termToRemove + ROLLING_PRIME_MODULUS)
                  % ROLLING_PRIME_MODULUS
        h2 == MulMod(h1, ROLLING_PRIME_BASE)
    IN  (h2 + charInCode) % ROLLING_PRIME_MODULUS

\* The finalizer imported from grouped-oph: a fixed function of the rolled
\* hash and the seed alone, one-to-one on the residues below the modulus.
murmurhash3_32_gc_single_int(key, seed) ==
    (key + seed + 106196836) % 2147483647

\* ------------------------------------------------------------------------
\* The node string: path, then ":" and the text of the value, if any.
\* ------------------------------------------------------------------------
\* A mutant of ValueString: JSON.stringify for every type, which quotes strings.
ValueStringAsJSON(value) ==
    CASE value.t = "string" -> <<34>> \o value.s \o <<34>>
      [] value.t = "number" -> NumberToString(value.n)
      [] value.t = "boolean" -> (IF value.b THEN TXT_TRUE ELSE TXT_FALSE)
      [] OTHER -> TXT_NULL

\* String(value) / JSON.stringify(value) of a leaf value, by typeof.
ValueString(value) ==
    CASE value.t = "string" -> value.s
      [] value.t = "number" -> NumberToString(value.n)
      [] value.t = "boolean" -> (IF value.b THEN TXT_TRUE ELSE TXT_FALSE)
      [] OTHER -> TXT_NULL

\* The stateless path's nodeString.
NodeString(node) ==
    IF node.value # Undefined
    THEN node.path \o COLON \o ValueString(node.value)
    ELSE node.path

\* The caching path's shingleInputString.
ShingleInputString(node) ==
    IF node.value # Undefined
    THEN node.path \o COLON \o ValueString(node.value)
    ELSE node.path

\* ------------------------------------------------------------------------
\* The shingle collection: a Set of hashes when frequencyThreshold is 1, else
\* a Map from hash to count (a function on the hashes seen so far).
\* ------------------------------------------------------------------------
EmptyCollection(self) == IF self.useSetForShingles THEN {} ELSE <<>>

\* shingleCollection.add(h), or .set(h, (.get(h) || 0) + 1).
AddShingle(self, shingleCollection, h) ==
    IF self.useSetForShingles
    THEN shingleCollection \cup {h}
    ELSE IF h \in DOMAIN shingleCollection
         THEN [shingleCollection EXCEPT ![h] = @ + 1]
         ELSE [x \in DOMAIN shingleCollection \cup {h} |->
                  IF x = h THEN 1 ELSE shingleCollection[x]]

\* The stateless path's rolling loop, from window i + 1 on: every rolled
\* hash is finalized and recorded in the collection.
RECURSIVE StatelessRollLoop(_, _, _, _, _, _)
StatelessRollLoop(self, targetString, i, limit, currentHash, shingleCollection) ==
    IF ~Evaluated(<<currentHash, shingleCollection>>) \/ i >= limit
    THEN shingleCollection
    ELSE LET k == self.options.shingleSize
             rolled == Roll(self.rollingHashPower, currentHash,
                            targetString[i + 1], targetString[i + k + 1])
         IN  StatelessRollLoop(self, targetString, i + 1, limit, rolled,
                 AddShingle(self, shingleCollection,
                            murmurhash3_32_gc_single_int(rolled, 0)))

\* A mutant of StatelessUpdate: only the first window is recorded.
StatelessUpdateFirstWindowOnly(self, node, shingleCollection) ==
    LET k == self.options.shingleSize
        targetString == NodeString(node)
        n == IF Len(targetString) >= k THEN k ELSE Len(targetString)
    IN  IF n > 0
        THEN AddShingle(self, shingleCollection,
                 murmurhash3_32_gc_single_int(PolyLoop(targetString, 0, n, 0), 0))
        ELSE shingleCollection

\* The stateless path of _updateShingleFrequenciesForNode.
StatelessUpdate(self, node, shingleCollection) ==
    LET k == self.options.shingleSize
        targetString == NodeString(node)
    IN  IF Len(targetString) >= k
        THEN LET currentHash == PolyLoop(targetString, 0, k, 0)
             IN  StatelessRollLoop(self, targetString, 0, Len(targetString) - k,
                     currentHash,
                     AddShingle(self, shingleCollection,
                                murmurhash3_32_gc_single_int(currentHash, 0)))
        ELSE IF Len(targetString) > 0
        THEN AddShingle(self, shingleCollection,
                 murmurhash3_32_gc_single_int(
                     PolyLoop(targetString, 0, Len(targetString), 0), 0))
        ELSE shingleCollection

\* The caching path's rolling loop: the hashes go into the node's own Set.
RECURSIVE CachedRollLoop(_, _, _, _, _, _)
CachedRollLoop(self, targetString, i, limit, currentHash, generated) ==
    IF ~Evaluated(<<currentHash, generated>>) \/ i >= limit THEN generated
    ELSE LET k == self.options.shingleSize
             rolled == Roll(self.rollingHashPower, currentHash,
                            targetString[i + 1], targetString[i + k + 1])
         IN  CachedRollLoop(self, targetString, i + 1, limit, rolled,
                 generated \cup {murmurhash3_32_gc_single_int(rolled, 0)})

\* shinglesGeneratedForThisNode on a cache miss.
ShinglesGeneratedForThisNode(self, targetString) ==
    LET k == self.options.shingleSize
    IN  IF Len(targetString) >= k
        THEN LET currentHash == PolyLoop(targetString, 0, k, 0)
             IN  CachedRollLoop(self, targetString, 0, Len(targetString) - k,
                     currentHash, {murmurhash3_32_gc_single_int(currentHash, 0)})
        ELSE IF Len(targetString) > 0
        THEN {murmurhash3_32_gc_single_int(
                  PolyLoop(targetString, 0, Len(targetString), 0), 0)}
        ELSE {}

\* for (const shingleHash of shingles): one add or one increment per hash.
RECURSIVE ReplayShingles(_, _, _)
ReplayShingles(self, shingles, shingleCollection) ==
    IF ~Evaluated(shingleCollection) \/ shingles = {} THEN shingleCollection
    ELSE LET h == CHOOSE x \in shingles : TRUE
         IN  ReplayShingles(self, shingles \ {h},
                            AddShingle(self, shingleCollection, h))

\* ------------------------------------------------------------------------
\* The node string cache (hyperbolic-lru): entries in order of use, the least
\* recently used first; at most `capacity` entries.
\* ------------------------------------------------------------------------
NoCache == [capacity |-> 0, entries |-> <<>>, present |-> FALSE]
NewCache(capacity) == [capacity |-> capacity, entries |-> <<>>, present |-> TRUE]

CacheIndex(cache, key) ==
    IF \E i \in 1..Len(cache.entries) : cache.entries[i].key = key
    THEN CHOOSE i \in 1..Len(cache.entries) : cache.entries[i].key = key
    ELSE 0

CacheHas(cache, key) == CacheIndex(cache, key) # 0

Without(seq, i) == SubSeq(seq, 1, i - 1) \o SubSeq(seq, i + 1, Len(seq))

CacheValue(cache, key) == cache.entries[CacheIndex(cache, key)].value

\* The cache after get(key): the entry becomes the most recently used.
CacheAfterGet(cache, key) ==
    LET i == CacheIndex(cache, key)
    IN  [cache EXCEPT !.entries = Append(Without(@, i), cache.entries[i])]

\* The cache after set(key, value): the least recently used entry is evicted
\* when the capacity is exceeded.
CacheAfterSet(cache, key, value) ==
    LET i == CacheIndex(cache, key)
        rest == IF i = 0 THEN cache.entries ELSE Without(cache.entries, i)
        put == Append(rest, [key |-> key, value |-> value])
    IN  [cache EXCEPT !.entries =
            IF Len(put) > cache.capacity THEN Tail(put) ELSE put]

CacheAfterClear(cache) == [cache EXCEPT !.entries = <<>>]

\* ------------------------------------------------------------------------
\* _updateShingleFrequenciesForNode.  The result is the collection and the
\* cache after the call.
\* ------------------------------------------------------------------------
\* A mutant of CachedUpdate: a cache hit records nothing.
CachedUpdateHitAddsNothing(self, cache, node, shingleCollection) ==
    LET shingleInputString == ShingleInputString(node)
    IN  IF CacheHas(cache, shingleInputString)
        THEN [collection |-> shingleCollection,
              cache |-> CacheAfterGet(cache, shingleInputString)]
        ELSE LET generated == ShinglesGeneratedForThisNode(self, shingleInputString)
             IN  [collection |-> ReplayShingles(self, generated, shingleCollection),
                  cache |-> CacheAfterSet(cache, shingleInputString, generated)]

\* A mutant of CachedUpdate: a miss caches the hashes of the running
\* collection instead of the node's own.
CachedUpdateCachesCollection(self, cache, node, shingleCollection) ==
    LET shingleInputString == ShingleInputString(node)
    IN  IF CacheHas(cache, shingleInputString)
        THEN [collection |-> ReplayShingles(self,
                                 CacheValue(cache, shingleInputString),
                                 shingleCollection),
              cache |-> CacheAfterGet(cache, shingleInputString)]
        ELSE LET generated == ShinglesGeneratedForThisNode(self, shingleInputString)
                 collection == ReplayShingles(self, generated, shingleCollection)
             IN  [collection |-> collection,
                  cache |-> CacheAfterSet(cache, shingleInputString,
                                IF self.useSetForShingles THEN collection
                                ELSE DOMAIN collection)]

CachedUpdate(self, cache, node, shingleCollection) ==
    LET shingleInputString == ShingleInputString(node)
    IN  IF CacheHas(cache, shingleInputString)
        THEN [collection |-> ReplayShingles(self,
                                 CacheValue(cache, shingleInputString),
                                 shingleCollection),
              cache |-> CacheAfterGet(cache, shingleInputString)]
        ELSE LET generated == ShinglesGeneratedForThisNode(self, shingleInputString)
             IN  [collection |-> ReplayShingles(self, generated, shingleCollection),
                  cache |-> CacheAfterSet(cache, shingleInputString, generated)]

updateShingleFrequenciesForNode(self, cache, node, shingleCollection) ==
    IF self.options.enableNodeStringCache
    THEN CachedUpdate(self, cache, node, shingleCollection)
    ELSE [collection |-> StatelessUpdate(self, node, shingleCollection),
          cache |-> cache]

\* ------------------------------------------------------------------------
\* _buildShingleMultiset: every node is a subtree start; every node of every
\* subtree updates the collection.  acc is [collection, cache].
\* ------------------------------------------------------------------------
\* for (const nodeId of subtreeNodeIds), from position j on.
RECURSIVE SubtreeNodeLoop(_, _, _, _, _)
SubtreeNodeLoop(self, csrData, subtreeNodeIds, j, acc) ==
    IF ~Evaluated(acc) \/ j > Len(subtreeNodeIds) THEN acc
    ELSE SubtreeNodeLoop(self, csrData, subtreeNodeIds, j + 1,
             updateShingleFrequenciesForNode(self, acc.cache,
                 csrData.nodeMap[subtreeNodeIds[j] + 1], acc.collection))

\* for (const startNodeId of csrData.nodeMap.keys()), from id startNodeId on.
RECURSIVE StartNodeLoop(_, _, _, _)
StartNodeLoop(self, csrData, startNodeId, acc) ==
    IF ~Evaluated(acc) \/ startNodeId >= Len(csrData.nodeMap) THEN acc
    ELSE IF startNodeId >= 0 /\ startNodeId < Len(csrData.rowPtr) - 1
    THEN StartNodeLoop(self, csrData, startNodeId + 1,
             SubtreeNodeLoop(self, csrData,
                 extractSubtrees(self, csrData, startNodeId), 1, acc))
    ELSE StartNodeLoop(self, csrData, startNodeId + 1, acc)

buildShingleMultiset(self, cache, json) ==
    StartNodeLoop(self, buildCSRFromJSON(self, json), 0,
                  [collection |-> EmptyCollection(self), cache |-> cache])

\* ------------------------------------------------------------------------
\* _thresholdMultiset
\* ------------------------------------------------------------------------
\* A mutant of thresholdMultiset: the comparison is strict.
thresholdMultisetStrict(self, shingleCollection) ==
    IF self.useSetForShingles
    THEN shingleCollection
    ELSE {hash \in DOMAIN shingleCollection :
             shingleCollection[hash] > self.options.frequencyThreshold}

\* A mutant of thresholdMultiset: a hash is kept when its count is the
\* threshold exactly.
thresholdMultisetExact(self, shingleCollection) ==
    IF self.useSetForShingles
    THEN shingleCollection
    ELSE {hash \in DOMAIN shingleCollection :
             shingleCollection[hash] = self.options.frequencyThreshold}

thresholdMultiset(self, shingleCollection) ==
    IF self.useSetForShingles
    THEN shingleCollection
    ELSE {hash \in DOMAIN shingleCollection :
             shingleCollection[hash] >= self.options.frequencyThreshold}

\* generateShingleSet: the returned set and the cache after the call.
generateShingleSet(self, cache, json) ==
    LET built == buildShingleMultiset(self, cache, json)
    IN  [result |-> thresholdMultiset(self, built.collection),
         cache |-> built.cache]

\* ------------------------------------------------------------------------
\* The constructor.  An options object is a record holding the supplied
\* options only; numHashFunctions and numGroups are rationals [n, d], d > 0,
\* so that a non-integer can be supplied.
\* ------------------------------------------------------------------------
Rat(n, d) == [n |-> n, d |-> d]
IsInteger(x) == x.n % x.d = 0
IntOf(x) == x.n \div x.d

\* options[f] ?? dflt
OrDefault(options, f, dflt) == IF f \in DOMAIN options THEN options[f] ELSE dflt

\* A mutant of ConstructorError: divisibility is not checked.
ConstructorErrorWithoutDivisibility(numHashFunctions, numGroups, shingleSize) ==
    IF shingleSize < 1
    THEN "shingleSize must be at least 1"
    ELSE IF numHashFunctions.n <= 0 \/ ~IsInteger(numHashFunctions)
    THEN "numHashFunctions must be a positive integer."
    ELSE IF numGroups.n <= 0 \/ ~IsInteger(numGroups)
    THEN "numGroups must be a positive integer."
    ELSE "none"

\* The error the constructor throws, "none" if it throws nothing.
ConstructorError(numHashFunctions, numGroups, shingleSize) ==
    IF shingleSize < 1
    THEN "shingleSize must be at least 1"
    ELSE IF numHashFunctions.n <= 0 \/ ~IsInteger(numHashFunctions)
    THEN "numHashFunctions must be a positive integer."
    ELSE IF numGroups.n <= 0 \/ ~IsInteger(numGroups)
    THEN "numGroups must be a positive integer."
    ELSE IF IntOf(numHashFunctions) % IntOf(numGroups) # 0
    THEN "numHashFunctions must be divisible by numGroups"
    ELSE "none"

\* new JSONHashify(options): the error thrown, the instance's fields and the
\* cache it creates.
JSONHashify(options) ==
    LET numHashFunctions ==
            OrDefault(options, "numHashFunctions",
                      OrDefault(options, "numPermutations", Rat(128, 1)))
        numGroups == OrDefault(options, "numGroups", Rat(4, 1))
        opts == [subtreeDepth |-> OrDefault(options, "subtreeDepth", 2),
                 frequencyThreshold |-> OrDefault(options, "frequencyThreshold", 1),
                 preserveArrayOrder |-> OrDefault(options, "preserveArrayOrder", TRUE),
                 shingleSize |-> OrDefault(options, "shingleSize", 5),
                 numHashFunctions |-> numHashFunctions,
                 enableNodeStringCache |->
                     OrDefault(options, "enableNodeStringCache", FALSE),
                 nodeStringCacheSize |-> OrDefault(options, "nodeStringCacheSize", 1000)]
    IN  [thrown |-> ConstructorError(numHashFunctions, numGroups, opts.shingleSize),
         self |-> [numHashFunctions |-> numHashFunctions,
                   numGroups |-> numGroups,
                   options |-> opts,
                   ignoreKeys |-> OrDefault(options, "ignoreKeys", {}),
                   useSetForShingles |-> opts.frequencyThreshold = 1,
                   rollingHashPower |-> RollingHashPower(opts.shingleSize)],
         cache |-> IF opts.enableNodeStringCache
                   THEN NewCache(opts.nodeStringCacheSize)
                   ELSE NoCache]

\* ------------------------------------------------------------------------
\* Inputs.  Documents are all JSON values of at most MaxNodes nodes over the
\* scalars and keys below, and a few documents with the remaining leaf types.
\* ------------------------------------------------------------------------
MaxNodes == 3

TXT_AA == <<97, 97>>                    \* "aa"
Scalars == {Num(1), Str(TXT_AA)}
Keys == {KEY_A, KEY_X}

\* The sequences of n distinct keys.
RECURSIVE KeySeqs(_, _)
KeySeqs(keys, n) ==
    IF n = 0 THEN {<<>>}
    ELSE UNION {{<<k>> \o r : r \in KeySeqs(keys \ {k}, n - 1)} : k \in keys}

RECURSIVE ValuesOfSize(_)
RECURSIVE SeqsOfSize(_)

\* The sequences of values whose node counts sum to m.
SeqsOfSize(m) ==
    IF m = 0 THEN {<<>>}
    ELSE UNION {{<<v>> \o r : v \in ValuesOfSize(f), r \in SeqsOfSize(m - f)} :
                f \in 1..m}

\* The JSON values of exactly n nodes.
ValuesOfSize(n) ==
    IF n = 1 THEN Scalars \cup {Arr(<<>>), Obj(<<>>)}
    ELSE {Arr(e) : e \in SeqsOfSize(n - 1)}
         \cup UNION {{Obj([i \in 1..Len(e) |-> Member(ks[i], e[i])]) :
                         ks \in KeySeqs(Keys, Len(e))} :
                     e \in {x \in SeqsOfSize(n - 1) : Len(x) <= Cardinality(Keys)}}

ExtraDocs ==
    {Null, Bool(TRUE), Bool(FALSE), Num(-12), Str(<<>>),
     Arr(<<Null, Bool(FALSE)>>),
     Obj(<<Member(KEY_A, Obj(<<Member(KEY_A, Obj(<<Member(KEY_A, Num(1))>>))>>))>>),
     Obj(<<Member(KEY_A, Arr(<<Obj(<<Member(KEY_X, Num(1))>>),
                               Obj(<<Member(KEY_X, Str(TXT_AA))>>)>>))>>),
     Obj(<<Member(ROOT, Obj(<<Member(KEY_A, Num(1))>>))>>),
     Obj(<<Member(KEY_DOTTED, Arr(<<Num(1)>>))>>),
     Arr(<<Arr(<<>>), Obj(<<Member(KEY_A, Arr(<<Str(TXT_AA)>>))>>)>>)}

Docs == UNION {ValuesOfSize(n) : n \in 1..MaxNodes} \cup ExtraDocs

\* ------------------------------------------------------------------------
\* The state: one JSONHashify instance and the record of what was called on it.
\* ------------------------------------------------------------------------
VARIABLES
    phase,      \* "unconstructed", "threw" or "ready"
    thrown,     \* the error the constructor threw, "none" if none
    hasher,     \* the instance's fields (this)
    cache,      \* this.nodeStringShingleCache
    calls,      \* the number of calls made on the instance
    last,       \* the last call: its name, its argument, what it returned
    returned,   \* what generateShingleSet and generateSketch have returned so far:
                \* the argument, the value, the cache before the call
    run,        \* the call in progress, when a call is followed step by step
    acc         \* that call's shingle collection and the cache as it updates it

vars == <<phase, thrown, hasher, cache, calls, last, returned, run, acc>>

NoCall == [op |-> "none"]
NoRun == [pc |-> "idle"]
NoAcc == [collection |-> {}, cache |-> NoCache]
NothingReturned == [shingleSets |-> {}, sketches |-> {}]
NoHasher == [none |-> TRUE]

\* Options for the documents' specification: every combination of the
\* options that decide the feature set.
ShingleSizes == {1, 3, 5}
SubtreeDepths == {0, 1, 2}
FrequencyThresholds == {1, 2}
IgnoreKeySets == {{}, {KEY_X}}

DocOptions ==
    {[shingleSize |-> k, subtreeDepth |-> d, frequencyThreshold |-> t,
      preserveArrayOrder |-> o, enableNodeStringCache |-> c, ignoreKeys |-> ig,
      nodeStringCacheSize |-> 2,
      numHashFunctions |-> Rat(4, 1), numGroups |-> Rat(2, 1)] :
        k \in ShingleSizes, d \in SubtreeDepths, t \in FrequencyThresholds,
        o \in BOOLEAN, c \in BOOLEAN, ig \in IgnoreKeySets}

\* The state after new JSONHashify(options) returned an instance.
Constructed(options) ==
    LET made == JSONHashify(options)
    IN  /\ made.thrown = "none"
        /\ phase = "ready"
        /\ thrown = "none"
        /\ hasher = made.self
        /\ cache = made.cache
        /\ calls = 0
        /\ last = NoCall
        /\ returned = NothingReturned
        /\ run = NoRun
        /\ acc = NoAcc

\* hasher.generateShingleSet(json)
GenerateShingleSet(json) ==
    /\ phase = "ready"
    /\ LET out == generateShingleSet(hasher, cache, json)
       IN  /\ cache' = out.cache
           /\ last' = [op |-> "generateShingleSet", json |-> json,
                       result |-> out.result, cacheBefore |-> cache]
           /\ returned' = [returned EXCEPT !.shingleSets = @ \cup
                  {[json |-> json, result |-> out.result, cacheBefore |-> cache]}]
    /\ calls' = calls + 1
    /\ UNCHANGED <<phase, thrown, hasher, run, acc>>

\* One document, every configuration: a fresh instance, one call.
InitDoc == \E options \in DocOptions : Constructed(options)

NextDoc == calls = 0 /\ \E json \in Docs : GenerateShingleSet(json)

SpecDoc == InitDoc /\ [][NextDoc]_vars

\* ------------------------------------------------------------------------
\* Documents related to a document: by an added ignored member, by a
\* permutation of one array.
\* ------------------------------------------------------------------------
InsertAt(seq, p, x) == SubSeq(seq, 1, p - 1) \o <<x>> \o SubSeq(seq, p, Len(seq))

MemberKeys(m) == {m[i].k : i \in 1..Len(m)}

\* What is put beneath the added member: a leaf, and an array that holds a
\* leaf and an object.
IgnoredContents ==
    {Num(1), Arr(<<Null, Obj(<<Member(KEY_A, Str(TXT_AA))>>)>>)}

\* The documents obtained from v by adding, to one object of v at any depth
\* and at any position among its members, one member whose key is in K.
RECURSIVE WithIgnoredMember(_, _)
WithIgnoredMember(v, K) ==
    CASE v.t = "object" ->
            {Obj(InsertAt(v.m, p, Member(k, c))) :
                p \in 1..(Len(v.m) + 1), k \in K \ MemberKeys(v.m),
                c \in IgnoredContents}
            \cup UNION {{Obj([v.m EXCEPT ![i].v = w]) :
                            w \in WithIgnoredMember(v.m[i].v, K)} :
                        i \in 1..Len(v.m)}
      [] v.t = "array" ->
            UNION {{Arr([v.e EXCEPT ![i] = w]) : w \in WithIgnoredMember(v.e[i], K)} :
                   i \in 1..Len(v.e)}
      [] OTHER -> {}

\* The documents obtained from v by permuting the elements of one array of v,
\* at any depth.
RECURSIVE WithPermutedArray(_)
WithPermutedArray(v) ==
    CASE v.t = "array" ->
            {Arr([i \in 1..Len(v.e) |-> v.e[pi[i]]]) : pi \in Permutations(1..Len(v.e))}
            \cup UNION {{Arr([v.e EXCEPT ![i] = w]) : w \in WithPermutedArray(v.e[i])} :
                        i \in 1..Len(v.e)}
      [] v.t = "object" ->
            UNION {{Obj([v.m EXCEPT ![i].v = w]) : w \in WithPermutedArray(v.m[i].v)} :
                   i \in 1..Len(v.m)}
      [] OTHER -> {}

\* ------------------------------------------------------------------------
\* The feature set stated directly: every window of every node string of
\* every extracted subtree, hashed by the polynomial itself.
\* ------------------------------------------------------------------------
\* ROLLING_PRIME_BASE^e % ROLLING_PRIME_MODULUS
RECURSIVE PowMod(_)
PowMod(e) ==
    IF e = 0 THEN 1
    ELSE LET p == PowMod(e - 1)
         IN  IF Evaluated(p) THEN MulMod(p, ROLLING_PRIME_BASE) ELSE 0

\* sum of code(w[i]) * B^(len - i), modulo M, over the positions from i on.
RECURSIVE PolySum(_, _)
PolySum(w, i) ==
    IF i > Len(w) THEN 0
    ELSE LET weight == PowMod(Len(w) - i)
         IN  IF Evaluated(weight)
             THEN (MulMod(weight, w[i]) + PolySum(w, i + 1))
                      % ROLLING_PRIME_MODULUS
             ELSE 0

DirectShingleHash(w) == murmurhash3_32_gc_single_int(PolySum(w, 1), 0)

\* The windows of a string: every run of k characters; the whole string when
\* it is shorter than k and not empty.
Windows(k, str) ==
    IF Len(str) = 0 THEN <<>>
    ELSE IF Len(str) < k THEN <<str>>
    ELSE [p \in 1..(Len(str) - k + 1) |-> SubSeq(str, p, p + k - 1)]

\* One occurrence <<n, j, p, h>>: window p of the string of the j-th node of
\* the subtree extracted from start node n, and the hash h of that window.
Occurrences(self, json) ==
    LET csrData == buildCSRFromJSON(self, json)
    IN  UNION {LET sub == extractSubtrees(self, csrData, n)
               IN  UNION {LET w == Windows(self.options.shingleSize,
                                           NodeString(csrData.nodeMap[sub[j] + 1]))
                          IN  {<<n, j, p, DirectShingleHash(w[p])>> : p \in 1..Len(w)} :
                          j \in 1..Len(sub)} :
               n \in 0..(Len(csrData.nodeMap) - 1)}

\* The bag of shingle hashes of a document: hash -> number of occurrences.
OccurrenceCounts(self, json) ==
    LET occ == Occurrences(self, json)
    IN  [h \in {o[4] : o \in occ} |-> Cardinality({o \in occ : o[4] = h})]

\* ------------------------------------------------------------------------
\* Properties of one call on a fresh instance (SpecDoc).
\* ------------------------------------------------------------------------
Called == last.op = "generateShingleSet"

\* What generateShingleSet returns for json on the instance as it was before
\* the last call.
ResultFor(json) == generateShingleSet(hasher, last.cacheBefore, json).result

\* C4: a member added under an ignored key, whatever lies beneath it, changes
\* neither the node table nor the feature set.
C4_IgnoredMemberInvisible ==
    Called =>
        \A other \in WithIgnoredMember(last.json, hasher.ignoreKeys) :
            /\ buildCSRFromJSON(hasher, other) = buildCSRFromJSON(hasher, last.json)
            /\ ResultFor(other) = last.result

C4_Witness ==
    /\ Called
    /\ last.json.t = "array"
    /\ WithIgnoredMember(last.json, hasher.ignoreKeys) # {}
    /\ last.result # {}

\* C5: with preserveArrayOrder = false, permuting the elements of any array of
\* the document leaves the feature set unchanged.
C5_BagArraysIgnoreOrder ==
    (Called /\ ~hasher.options.preserveArrayOrder) =>
        \A other \in WithPermutedArray(last.json) : ResultFor(other) = last.result

C5_Witness ==
    /\ Called
    /\ ~hasher.options.preserveArrayOrder
    /\ hasher.options.frequencyThreshold > 1
    /\ \E other \in WithPermutedArray(last.json) :
          /\ other # last.json
          /\ \E i \in 1..Len(other.e) : ~IsLeafValue(other.e[i])
    /\ last.result # {}

C7_ThresholdOneIsTheUnion ==
    (Called /\ hasher.options.frequencyThreshold = 1) =>
        last.result = DOMAIN OccurrenceCounts(hasher, last.json)

C7_Witness ==
    /\ Called
    /\ hasher.options.frequencyThreshold = 1
    /\ hasher.options.subtreeDepth = 1
    /\ Len(buildCSRFromJSON(hasher, last.json).nodeMap) >= 3
    /\ Cardinality(last.result) >= 5

\* C8: with frequencyThreshold = t > 1 and the cache disabled the feature set
\* is exactly the set of hashes that occur at least t times, counting every
\* window position of every node string of every extracted subtree.
C8_ThresholdKeepsFrequentHashes ==
    (Called /\ hasher.options.frequencyThreshold > 1
            /\ ~hasher.options.enableNodeStringCache) =>
        LET counts == OccurrenceCounts(hasher, last.json)
        IN  last.result =
                {h \in DOMAIN counts : counts[h] >= hasher.options.frequencyThreshold}

C8_Witness ==
    /\ Called
    /\ hasher.options.frequencyThreshold = 2
    /\ ~hasher.options.enableNodeStringCache
    /\ LET counts == OccurrenceCounts(hasher, last.json)
       IN  /\ \E h \in DOMAIN counts : counts[h] = 1
           /\ \E h \in DOMAIN counts : counts[h] = 2
           /\ \E h \in DOMAIN counts : counts[h] > 2

\* C1 as stated: an instance with the cache enabled returns the feature set
\* that an instance of the same configuration without the cache returns.
StatelessTwin(self) == [self EXCEPT !.options.enableNodeStringCache = FALSE]

C1_CacheIsTransparent ==
    (Called /\ hasher.options.enableNodeStringCache) =>
        last.result = generateShingleSet(StatelessTwin(hasher), NoCache, last.json).result

\* ------------------------------------------------------------------------
\* Construction alone (SpecNew): new JSONHashify(options) over options objects
\* that supply any subset of shingleSize, numHashFunctions, numPermutations and
\* numGroups.
\* ------------------------------------------------------------------------
\* The options objects that leave the field out or give it one of the values.
Optional(field, values) == {<<>>} \cup {field :> v : v \in values}

NewOptions ==
    {a @@ b @@ c @@ d :
        a \in Optional("shingleSize", {-1, 0, 1, 5}),
        b \in Optional("numHashFunctions",
                       {Rat(0, 1), Rat(-4, 1), Rat(5, 2), Rat(4, 1), Rat(6, 1)}),
        c \in Optional("numPermutations", {Rat(0, 1), Rat(8, 1)}),
        d \in Optional("numGroups",
                       {Rat(0, 1), Rat(-2, 1), Rat(3, 2), Rat(2, 1), Rat(4, 1)})}

\* new JSONHashify(options): an error is thrown, or the instance is returned.
New(options) ==
    /\ phase = "unconstructed"
    /\ LET made == JSONHashify(options)
       IN  IF made.thrown # "none"
           THEN /\ phase' = "threw"
                /\ thrown' = made.thrown
                /\ hasher' = NoHasher
                /\ cache' = NoCache
           ELSE /\ phase' = "ready"
                /\ thrown' = "none"
                /\ hasher' = made.self
                /\ cache' = made.cache
    /\ last' = [op |-> "new", options |-> options]
    /\ UNCHANGED <<calls, returned, run, acc>>

InitNew ==
    /\ phase = "unconstructed"
    /\ thrown = "none"
    /\ hasher = NoHasher
    /\ cache = NoCache
    /\ calls = 0
    /\ last = NoCall
    /\ returned = NothingReturned
    /\ run = NoRun
    /\ acc = NoAcc

NextNew == \E options \in NewOptions : New(options)

SpecNew == InitNew /\ [][NextNew]_vars

IsPositiveInteger(x) == x.n > 0 /\ IsInteger(x)

\* The values construction works with: what the options object supplies, else
\* the documented defaults.
EffectiveShingleSize(options) == OrDefault(options, "shingleSize", 5)
EffectiveNumHashFunctions(options) ==
    OrDefault(options, "numHashFunctions",
              OrDefault(options, "numPermutations", Rat(128, 1)))
EffectiveNumGroups(options) == OrDefault(options, "numGroups", Rat(4, 1))

InvalidOptions(options) ==
    \/ EffectiveShingleSize(options) < 1
    \/ ~IsPositiveInteger(EffectiveNumHashFunctions(options))
    \/ ~IsPositiveInteger(EffectiveNumGroups(options))
    \/ IntOf(EffectiveNumHashFunctions(options))
           % IntOf(EffectiveNumGroups(options)) # 0

\* C3: construction throws and returns no instance whenever shingleSize < 1,
\* or numHashFunctions or numGroups is not a positive integer, or
\* numHashFunctions is not a multiple of numGroups; construction with no
\* options returns an instance.
C3_ConstructionValidates ==
    (last.op = "new") =>
        /\ InvalidOptions(last.options) =>
               (phase = "threw" /\ thrown # "none" /\ hasher = NoHasher)
        /\ (DOMAIN last.options = {}) => (phase = "ready" /\ hasher # NoHasher)

C3_Witness ==
    /\ last.op = "new"
    /\ phase = "threw"
    /\ IsPositiveInteger(EffectiveNumHashFunctions(last.options))
    /\ IsPositiveInteger(EffectiveNumGroups(last.options))
    /\ "numPermutations" \in DOMAIN last.options
    /\ "numHashFunctions" \notin DOMAIN last.options

\* ------------------------------------------------------------------------
\* The signature engine (grouped-oph), by its interface: generate maps a
\* feature set to numHashFunctions values, estimate maps two sketches to a
\* similarity in [0, 1] and may answer exactly 0 or 1 when both a similarity
\* threshold and an error tolerance are supplied.
\* ------------------------------------------------------------------------
Min(S) == CHOOSE x \in S : \A y \in S : x <= y

\* One value per bin: the least hash that falls in the bin, -1 for an empty bin.
generateGroupedOPHSignature(features, numHashFunctions, numGroups) ==
    [i \in 1..numHashFunctions |->
        LET bin == {h \in features : h % numHashFunctions = i - 1}
        IN  IF bin = {} THEN -1 ELSE Min(bin)]

\* a >= b for rationals.
RatGeq(a, b) == a.n * b.d >= b.n * a.d

\* The values estimate may return: the share of agreeing positions, or the
\* short-circuit answer when both parameters are supplied.
estimateJaccardSimilarity(sketch1, sketch2, options) ==
    LET n == IF Len(sketch1) < Len(sketch2) THEN Len(sketch1) ELSE Len(sketch2)
        agree == Cardinality({i \in 1..n : sketch1[i] = sketch2[i]})
        exact == Rat(agree, Len(sketch1))
    IN  {exact} \cup
        (IF {"similarityThreshold", "errorTolerance"} \subseteq DOMAIN options
         THEN {IF RatGeq(exact, options.similarityThreshold)
               THEN Rat(1, 1) ELSE Rat(0, 1)}
         ELSE {})

\* generateSketch: the signature and the cache after the call.
generateSketch(self, nodeStringShingleCache, json) ==
    LET built == buildShingleMultiset(self, nodeStringShingleCache, json)
    IN  [result |-> generateGroupedOPHSignature(
                        thresholdMultiset(self, built.collection),
                        IntOf(self.numHashFunctions), IntOf(self.numGroups)),
         cache |-> built.cache]

\* estimationOptions[f] as destructuring reads it: undefined for a missing key.
OptionOf(estimationOptions, f) ==
    IF f \in DOMAIN estimationOptions THEN estimationOptions[f] ELSE Undefined

\* A mutant of FinalEstimationOptions: one of the two parameters is enough.
FinalEstimationOptionsEitherSupplied(self, estimationOptions) ==
    LET similarityThreshold == OptionOf(estimationOptions, "similarityThreshold")
        errorTolerance == OptionOf(estimationOptions, "errorTolerance")
        otherOptions ==
            [f \in DOMAIN estimationOptions \ {"similarityThreshold", "errorTolerance"}
                |-> estimationOptions[f]]
    IN  IF similarityThreshold # Undefined \/ errorTolerance # Undefined
        THEN ("similarityThreshold" :> similarityThreshold)
             @@ ("errorTolerance" :> errorTolerance)
             @@ ("numGroups" :> self.numGroups)
             @@ otherOptions
        ELSE otherOptions

\* finalEstimationOptions of compareSketches.
FinalEstimationOptions(self, estimationOptions) ==
    LET similarityThreshold == OptionOf(estimationOptions, "similarityThreshold")
        errorTolerance == OptionOf(estimationOptions, "errorTolerance")
        otherOptions ==
            [f \in DOMAIN estimationOptions \ {"similarityThreshold", "errorTolerance"}
                |-> estimationOptions[f]]
    IN  IF similarityThreshold # Undefined /\ errorTolerance # Undefined
        THEN ("similarityThreshold" :> estimationOptions.similarityThreshold)
             @@ ("errorTolerance" :> estimationOptions.errorTolerance)
             @@ ("numGroups" :> self.numGroups)
             @@ otherOptions
        ELSE otherOptions

\* ------------------------------------------------------------------------
\* A session on one instance (Spec): up to MaxCalls calls of the four public
\* operations, in any order, on a small pool of documents.
\* ------------------------------------------------------------------------
MaxCalls == 3

SessionOptions ==
    {[shingleSize |-> k, frequencyThreshold |-> t, enableNodeStringCache |-> c,
      nodeStringCacheSize |-> 2,
      numHashFunctions |-> Rat(4, 1), numGroups |-> Rat(2, 1)] :
        k \in {1, 5}, t \in {1, 2}, c \in BOOLEAN}

SessionDocs ==
    {Num(1), Obj(<<Member(KEY_A, Num(1))>>), Arr(<<Num(1), Str(TXT_AA)>>)}

EstimationOptionSets ==
    {<<>>,
     [similarityThreshold |-> Rat(1, 2)],
     [errorTolerance |-> Rat(1, 100), earlyExit |-> TRUE],
     [similarityThreshold |-> Undefined, errorTolerance |-> Rat(1, 100)],
     [similarityThreshold |-> Rat(1, 2), errorTolerance |-> Rat(1, 100)],
     [similarityThreshold |-> Rat(1, 2), errorTolerance |-> Rat(1, 100),
      earlyExit |-> TRUE],
     [numGroups |-> Rat(7, 1)],
     [similarityThreshold |-> Rat(1, 2), errorTolerance |-> Rat(1, 100),
      numGroups |-> Rat(7, 1)]}

\* hasher.generateSketch(json)
GenerateSketch(json) ==
    /\ phase = "ready"
    /\ LET out == generateSketch(hasher, cache, json)
       IN  /\ cache' = out.cache
           /\ last' = [op |-> "generateSketch", json |-> json,
                       result |-> out.result, cacheBefore |-> cache]
           /\ returned' = [returned EXCEPT !.sketches = @ \cup
                  {[json |-> json, result |-> out.result, cacheBefore |-> cache]}]
    /\ calls' = calls + 1
    /\ UNCHANGED <<phase, thrown, hasher, run, acc>>

\* hasher.compareSketches(sketch1, sketch2, estimationOptions)
CompareSketches(sketch1, sketch2, estimationOptions) ==
    /\ phase = "ready"
    /\ LET forwarded == FinalEstimationOptions(hasher, estimationOptions)
       IN  \E result \in estimateJaccardSimilarity(sketch1, sketch2, forwarded) :
              last' = [op |-> "compareSketches", sketch1 |-> sketch1,
                       sketch2 |-> sketch2, estimationOptions |-> estimationOptions,
                       forwarded |-> forwarded, result |-> result]
    /\ calls' = calls + 1
    /\ UNCHANGED <<phase, thrown, hasher, cache, returned, run, acc>>

\* A mutant of ClearNodeStringCache: the option is not consulted; the cache is
\* emptied, coming into being if there was none.
ClearNodeStringCacheUnguarded ==
    /\ phase = "ready"
    /\ cache' = [cache EXCEPT !.present = TRUE, !.entries = <<>>]
    /\ last' = [op |-> "clearNodeStringCache", cacheBefore |-> cache]
    /\ calls' = calls + 1
    /\ UNCHANGED <<phase, thrown, hasher, returned, run, acc>>

\* hasher.clearNodeStringCache()
ClearNodeStringCache ==
    /\ phase = "ready"
    /\ cache' = IF hasher.options.enableNodeStringCache /\ cache.present
                THEN CacheAfterClear(cache)
                ELSE cache
    /\ last' = [op |-> "clearNodeStringCache", cacheBefore |-> cache]
    /\ calls' = calls + 1
    /\ UNCHANGED <<phase, thrown, hasher, returned, run, acc>>

\* The sketches the caller holds: those generateSketch has returned.
Sketches == {r.result : r \in returned.sketches}

Init == \E options \in SessionOptions : Constructed(options)

Next ==
    /\ calls < MaxCalls
    /\ \/ \E json \in SessionDocs : GenerateShingleSet(json)
       \/ \E json \in SessionDocs : GenerateSketch(json)
       \/ \E sketch1 \in Sketches, sketch2 \in Sketches,
             estimationOptions \in EstimationOptionSets :
               CompareSketches(sketch1, sketch2, estimationOptions)
       \/ ClearNodeStringCache

Spec == Init /\ [][Next]_vars

\* C2: two calls of generateShingleSet, or of generateSketch, with the same
\* document on the same instance return the same value, whatever the cache
\* held before each call.
C2_SameInputSameOutput ==
    /\ \A r1 \in returned.shingleSets, r2 \in returned.shingleSets :
          (r1.json = r2.json) => r1.result = r2.result
    /\ \A r1 \in returned.sketches, r2 \in returned.sketches :
          (r1.json = r2.json) => r1.result = r2.result

C2_Witness ==
    /\ hasher.options.enableNodeStringCache
    /\ hasher.options.frequencyThreshold > 1
    /\ \E r1 \in returned.shingleSets, r2 \in returned.shingleSets :
          /\ r1.json = r2.json
          /\ r1.cacheBefore.entries = <<>>
          /\ Len(r2.cacheBefore.entries) = 2
          /\ r1.result # {}

\* C9: the sketches of two generateSketch calls with the same document on the
\* same instance compare as 1.0.
C9_SameDocumentComparesAsOne ==
    (last.op = "compareSketches" /\ DOMAIN last.estimationOptions = {}) =>
        ((\E r1 \in returned.sketches, r2 \in returned.sketches :
              /\ r1.json = r2.json
              /\ r1.result = last.sketch1 /\ r2.result = last.sketch2)
         => last.result.n = last.result.d)

C9_Witness ==
    /\ last.op = "compareSketches"
    /\ DOMAIN last.estimationOptions = {}
    /\ hasher.options.enableNodeStringCache
    /\ \E r1 \in returned.sketches, r2 \in returned.sketches :
          /\ r1.json = r2.json
          /\ r1.cacheBefore # r2.cacheBefore
          /\ r1.result = last.sketch1 /\ r2.result = last.sketch2
    /\ \E i \in 1..Len(last.sketch1) : last.sketch1[i] # -1

\* ------------------------------------------------------------------------
\* One call followed step by step (SpecRun): each iteration of the tree
\* builder's while loop and of each traversal's while loop is one step.
\* ------------------------------------------------------------------------
RunOptions ==
    {[subtreeDepth |-> d, ignoreKeys |-> ig, enableNodeStringCache |-> c,
      nodeStringCacheSize |-> 2,
      numHashFunctions |-> Rat(4, 1), numGroups |-> Rat(2, 1)] :
        d \in SubtreeDepths, ig \in IgnoreKeySets, c \in BOOLEAN}

\* The control part of each step reads and writes run alone.
\* generateShingleSet(json) is entered: the builder's variables are set up.
RunStartControl(json) ==
    /\ run.pc = "idle"
    /\ run' = [pc |-> "build", json |-> json, st |-> BuildInit(json)]

RunStart(json) ==
    /\ phase = "ready"
    /\ RunStartControl(json)
    /\ UNCHANGED <<phase, thrown, hasher, cache, calls, last, returned, acc>>

\* One iteration of the builder's while loop.
RunBuildStepControl ==
    /\ run.pc = "build"
    /\ Len(run.st.stack) > 0
    /\ run' = [run EXCEPT !.st = BuildStep(hasher, @)]

RunBuildStep ==
    /\ RunBuildStepControl
    /\ UNCHANGED <<phase, thrown, hasher, cache, calls, last, returned, acc>>

\* The traversal of the subtree that starts at startNodeId is set up, if there
\* is such a node.  starts lists the start nodes _extractSubtrees was called
\* with so far and passed the nodes handed to
\* _updateShingleFrequenciesForNode so far, in the order of the calls.
RunTraversal(json, csrData, startNodeId, starts, passed) ==
    [pc |-> "extract", json |-> json, csrData |-> csrData,
     startNodeId |-> startNodeId, starts |-> starts, passed |-> passed,
     b |-> IF startNodeId >= 0 /\ startNodeId < Len(csrData.rowPtr) - 1
           THEN BFSInit(csrData, startNodeId)
           ELSE [subtreeNodeIds |-> <<>>, visited |-> {}, queue |-> <<>>]]

\* The stack is empty: the CSR arrays are built, the collection is created and
\* the first traversal begins.
RunBuildDoneControl ==
    /\ run.pc = "build"
    /\ Len(run.st.stack) = 0
    /\ run' = RunTraversal(run.json, CSROf(run.st), 0, <<>>, <<>>)

RunBuildDone ==
    /\ RunBuildDoneControl
    /\ acc' = [collection |-> EmptyCollection(hasher), cache |-> cache]
    /\ UNCHANGED <<phase, thrown, hasher, cache, calls, last, returned>>

\* One iteration of a traversal's while loop.
RunBFSStepControl ==
    /\ run.pc = "extract"
    /\ run.startNodeId < Len(run.csrData.nodeMap)
    /\ Len(run.b.queue) > 0
    /\ run' = [run EXCEPT !.b = BFSStep(hasher, run.csrData, @)]

RunBFSStep ==
    /\ RunBFSStepControl
    /\ UNCHANGED <<phase, thrown, hasher, cache, calls, last, returned, acc>>

\* The queue is empty: the subtree's nodes update the collection and the next
\* start node is taken.
RunSubtreeDoneControl ==
    /\ run.pc = "extract"
    /\ run.startNodeId < Len(run.csrData.nodeMap)
    /\ Len(run.b.queue) = 0
    /\ run' = RunTraversal(run.json, run.csrData, run.startNodeId + 1,
                            Append(run.starts, run.startNodeId),
                            run.passed \o run.b.subtreeNodeIds)

RunSubtreeDone ==
    /\ RunSubtreeDoneControl
    /\ acc' = SubtreeNodeLoop(hasher, run.csrData, run.b.subtreeNodeIds, 1, acc)
    /\ UNCHANGED <<phase, thrown, hasher, cache, calls, last, returned>>

\* Every node has been a start node: the collection is thresholded and the
\* set is returned.
RunReturnControl ==
    /\ run.pc = "extract"
    /\ run.startNodeId >= Len(run.csrData.nodeMap)
    /\ run' = [pc |-> "done", json |-> run.json]

RunReturn ==
    /\ RunReturnControl
    /\ LET result == thresholdMultiset(hasher, acc.collection)
       IN  /\ last' = [op |-> "generateShingleSet", json |-> run.json,
                       result |-> result, cacheBefore |-> cache]
           /\ returned' = [returned EXCEPT !.shingleSets = @ \cup
                  {[json |-> run.json, result |-> result, cacheBefore |-> cache]}]
    /\ cache' = acc.cache
    /\ calls' = calls + 1
    /\ UNCHANGED <<phase, thrown, hasher, acc>>

InitRun == \E options \in RunOptions : Constructed(options)

NextRun ==
    \/ \E json \in Docs : RunStart(json)
    \/ RunBuildStep
    \/ RunBuildDone
    \/ RunBFSStep
    \/ RunSubtreeDone
    \/ RunReturn

RunControl ==
    \/ \E json \in Docs : RunStartControl(json)
    \/ RunBuildStepControl
    \/ RunBuildDoneControl
    \/ RunBFSStepControl
    \/ RunSubtreeDoneControl
    \/ RunReturnControl

\* The call is one synchronous computation: while its control can advance, it
\* advances.
SpecRun == InitRun /\ [][NextRun]_vars /\ WF_run(RunControl)

\* C10: for every document and configuration the call comes to its end and
\* returns the set that generateShingleSet computes: the work stack and every
\* traversal queue empty after finitely many iterations.
C10_CallTerminates ==
    <>(/\ run.pc = "done"
       /\ last.result = generateShingleSet(hasher, last.cacheBefore, run.json).result)

C10_Witness ==
    /\ run.pc = "done"
    /\ run.json = Obj(<<Member(KEY_A,
                        Obj(<<Member(KEY_A, Obj(<<Member(KEY_A, Num(1))>>))>>))>>)
    /\ hasher.options.subtreeDepth = 1
    /\ last.result # {}

\* ------------------------------------------------------------------------
\* Properties of clearNodeStringCache (Spec).
\* ------------------------------------------------------------------------
\* C11: with enableNodeStringCache = false a clearNodeStringCache step raises
\* nothing, leaves the instance and its cache as they were, and leaves what
\* generateShingleSet returns for every document as it was.
C11_ClearIsNoOpWithoutCache ==
    [][(last'.op = "clearNodeStringCache" /\ calls' = calls + 1
            /\ ~hasher.options.enableNodeStringCache) =>
          /\ phase' = "ready" /\ thrown' = "none"
          /\ hasher' = hasher
          /\ cache' = cache
          /\ returned' = returned
          /\ \A json \in SessionDocs :
                generateShingleSet(hasher', cache', json)
                    = generateShingleSet(hasher, cache, json)]_vars

C11_Witness ==
    /\ last.op = "clearNodeStringCache"
    /\ ~hasher.options.enableNodeStringCache
    /\ hasher.options.frequencyThreshold > 1
    /\ cache = NoCache
    /\ returned.shingleSets # {}

\* ------------------------------------------------------------------------
\* Paths (SpecDoc).  The node table is read side by side with the document:
\* the children of an array's node are its elements in order, the children of
\* an object's node are its members that are not ignored, in order.
\* ------------------------------------------------------------------------
ChildrenOf(csrData, id) ==
    [j \in 1..(csrData.rowPtr[id + 2] - csrData.rowPtr[id + 1]) |->
        csrData.colIndices[csrData.rowPtr[id + 1] + j]]

\* The members of an object that the ignore set lets through, in order.
RECURSIVE KeptMembers(_, _)
KeptMembers(self, m) ==
    IF m = <<>> THEN <<>>
    ELSE IF Head(m).k \in self.ignoreKeys THEN KeptMembers(self, Tail(m))
    ELSE <<Head(m)>> \o KeptMembers(self, Tail(m))

Edge(kind, index, key, parentId, parent, child) ==
    [kind |-> kind, index |-> index, key |-> key, parentId |-> parentId,
     parentPath |-> parent.path, childPath |-> child.path]

\* The parent-child pairs of the node table below node id, which stands for
\* the value v: "element" pairs carry the index, "member" pairs the key.
RECURSIVE Edges(_, _, _, _)
Edges(self, csrData, id, v) ==
    LET children == ChildrenOf(csrData, id)
        parent == csrData.nodeMap[id + 1]
    IN  CASE v.t = "array" ->
                UNION {{Edge("element", i - 1, <<>>, id, parent,
                             csrData.nodeMap[children[i] + 1])}
                       \cup Edges(self, csrData, children[i], v.e[i]) :
                       i \in 1..Len(v.e)}
          [] v.t = "object" ->
                LET kept == KeptMembers(self, v.m)
                IN  UNION {{Edge("member", -1, kept[i].k, id, parent,
                                 csrData.nodeMap[children[i] + 1])}
                           \cup Edges(self, csrData, children[i], kept[i].v) :
                           i \in 1..Len(kept)}
          [] OTHER -> {}

LastEdges == Edges(hasher, buildCSRFromJSON(hasher, last.json), 0, last.json)

\* C12 as stated: with preserveArrayOrder = true the element at index i of an
\* array at path P has the path P followed at once by "[i]".
C12_ElementPathIsArrayPathThenIndex ==
    (Called /\ hasher.options.preserveArrayOrder) =>
        \A e \in LastEdges :
            (e.kind = "element") =>
                e.childPath = e.parentPath \o LBRACKET \o NumberToString(e.index)
                                  \o RBRACKET

\* C13 as stated: with preserveArrayOrder = false every element of an array
\* has the array's own path as its path.
C13_ElementPathIsArrayPath ==
    (Called /\ ~hasher.options.preserveArrayOrder) =>
        \A e \in LastEdges : (e.kind = "element") => e.childPath = e.parentPath

\* C14 as stated: a member that is not ignored has the bare key as its path
\* under the document root and parentPath + "." + key under any other parent.
C14_MemberPathIsKeyOrDottedKey ==
    Called =>
        \A e \in LastEdges :
            (e.kind = "member") =>
                e.childPath = IF e.parentId = 0 THEN e.key
                              ELSE e.parentPath \o DOT \o e.key

\* ------------------------------------------------------------------------
\* The node table and the traversals (SpecRun).
\* ------------------------------------------------------------------------
Built == run.pc = "extract"

\* C15: a scalar or null input gives exactly one node, with id 0, path "$root"
\* and the input as its value, rowPtr = [0, 0] and no colIndices; an array or
\* object input gives node 0 the path "$root" and no value.
C15_RootNode ==
    Built =>
        IF IsLeafValue(run.json)
        THEN /\ run.csrData.nodeMap = <<NodeData(0, ROOT, run.json)>>
             /\ run.csrData.rowPtr = <<0, 0>>
             /\ run.csrData.colIndices = <<>>
        ELSE run.csrData.nodeMap[1] = NodeData(0, ROOT, Undefined)

C15_Witness ==
    /\ Built
    /\ run.json = Null
    /\ run.csrData.nodeMap[1].value = Null

\* C16: when the builder's loop has ended, rowPtr starts at 0, never
\* decreases, has one entry more than there are nodes and ends at the length
\* of colIndices, and the slice of colIndices that rowPtr marks for a node is
\* the list of that node's children in the order they were discovered.
C16_CSRWellFormed ==
    [][(run.pc = "build" /\ run'.pc = "extract") =>
          LET rowPtr == run'.csrData.rowPtr
              colIndices == run'.csrData.colIndices
              numNodes == run.st.nodeIdCounter
          IN  /\ numNodes = Len(run.st.nodeMap)
              /\ Len(rowPtr) = numNodes + 1
              /\ rowPtr[1] = 0
              /\ \A i \in 1..numNodes : rowPtr[i] <= rowPtr[i + 1]
              /\ rowPtr[numNodes + 1] = Len(colIndices)
              /\ \A i \in 1..numNodes :
                    SubSeq(colIndices, rowPtr[i] + 1, rowPtr[i + 1])
                        = run.st.childLists[i]]_vars

C16_Witness ==
    /\ Built
    /\ Len(run.csrData.colIndices) >= 3
    /\ \E i \in 2..Len(run.csrData.nodeMap) :
          /\ run.csrData.rowPtr[i + 1] > run.csrData.rowPtr[i]
          /\ \E j \in (i + 1)..Len(run.csrData.nodeMap) :
                run.csrData.rowPtr[j + 1] > run.csrData.rowPtr[j]

\* The node ids reachable from the ids of frontier by child edges.
RECURSIVE ReachableFrom(_, _, _)
ReachableFrom(csrData, frontier, seen) ==
    IF frontier = {} THEN seen
    ELSE LET next == UNION {{ChildrenOf(csrData, n)[j] :
                                j \in 1..Len(ChildrenOf(csrData, n))} :
                            n \in frontier}
         IN  ReachableFrom(csrData, next \ seen, seen \cup next)

\* C17: node ids are 0 .. numNodes - 1, every id but 0 stands exactly once in
\* colIndices, 0 stands nowhere in it, and every node is reached from node 0
\* along child edges.
C17_TreeShape ==
    Built =>
        LET c == run.csrData
            numNodes == Len(c.nodeMap)
        IN  /\ \A i \in 1..numNodes : c.nodeMap[i].id = i - 1
            /\ \A id \in 1..(numNodes - 1) :
                  Cardinality({p \in 1..Len(c.colIndices) : c.colIndices[p] = id}) = 1
            /\ \A p \in 1..Len(c.colIndices) : c.colIndices[p] \in 1..(numNodes - 1)
            /\ ReachableFrom(c, {0}, {0}) = 0..(numNodes - 1)

\* The node whose child list holds id; -1 for a node in no list.
ParentOf(csrData, id) ==
    IF \E n \in 0..(Len(csrData.nodeMap) - 1) :
          \E j \in 1..Len(ChildrenOf(csrData, n)) : ChildrenOf(csrData, n)[j] = id
    THEN CHOOSE n \in 0..(Len(csrData.nodeMap) - 1) :
          \E j \in 1..Len(ChildrenOf(csrData, n)) : ChildrenOf(csrData, n)[j] = id
    ELSE -1

\* The number of child hops from s down to n; -1 when n is not below s.
RECURSIVE Hops(_, _, _)
Hops(csrData, s, n) ==
    IF n = s THEN 0
    ELSE LET p == ParentOf(csrData, n)
         IN  IF p = -1 THEN -1
             ELSE LET h == Hops(csrData, s, p)
                  IN  IF h = -1 THEN -1 ELSE h + 1

C17_Witness ==
    /\ Built
    /\ Len(run.csrData.nodeMap) >= 4
    /\ \E n \in 0..(Len(run.csrData.nodeMap) - 1) : Hops(run.csrData, 0, n) = 3

TraversalEnded ==
    /\ run.pc = "extract"
    /\ run.startNodeId < Len(run.csrData.nodeMap)
    /\ Len(run.b.queue) = 0

\* C18: a traversal from start node s with depth bound d returns no node id
\* twice, returns exactly the nodes within d child hops of s, s first, and
\* never a node before one that is fewer hops from s.
C18_BoundedBreadthFirst ==
    TraversalEnded =>
        LET c == run.csrData
            s == run.startNodeId
            d == hasher.options.subtreeDepth
            ids == run.b.subtreeNodeIds
        IN  /\ \A i \in 1..Len(ids), j \in 1..Len(ids) : ids[i] = ids[j] => i = j
            /\ {ids[i] : i \in 1..Len(ids)}
                   = {n \in 0..(Len(c.nodeMap) - 1) : Hops(c, s, n) \in 0..d}
            /\ ids[1] = s
            /\ \A i \in 1..(Len(ids) - 1) :
                  Hops(c, s, ids[i]) <= Hops(c, s, ids[i + 1])

C18_Witness ==
    /\ TraversalEnded
    /\ hasher.options.subtreeDepth = 1
    /\ run.startNodeId = 1
    /\ Len(run.b.subtreeNodeIds) >= 2
    /\ Len(run.b.subtreeNodeIds) + 2 <= Len(run.csrData.nodeMap)
    /\ \E n \in 0..(Len(run.csrData.nodeMap) - 1) :
          Hops(run.csrData, run.startNodeId, n) = 2

\* ------------------------------------------------------------------------
\* One node followed through the stateless path of
\* _updateShingleFrequenciesForNode step by step (SpecString): the first
\* window or the degenerate shingle, then each iteration of the rolling loop.
\* ------------------------------------------------------------------------
MaxLen == 4
CodeUnits == {97, 98, 65535}
TXT_ABC == <<97, 98, 99>>
TXT_ABCD == <<97, 98, 99, 100>>

RECURSIVE StringsOfLength(_)
StringsOfLength(n) ==
    IF n = 0 THEN {<<>>}
    ELSE {Append(s, c) : s \in StringsOfLength(n - 1), c \in CodeUnits}

\* The leaf values a node can hold: every typeof case of the method.
LeafValues ==
    {Null, Bool(TRUE), Bool(FALSE), Num(0), Num(7), Num(-12), Num(105),
     Str(<<>>), Str(<<49>>), Str(TXT_NULL)}

\* The nodes handed to the method: a path of up to MaxLen code units, with no
\* value (a container) or with a string value, and a few paths with every
\* kind of leaf value.
StringNodes ==
    {NodeData(1, path, value) :
        path \in UNION {StringsOfLength(n) : n \in 0..MaxLen}
                     \cup {TXT_ABC, TXT_ABCD},
        value \in {Undefined, Str(<<97>>)}}
    \cup {NodeData(1, path, value) :
             path \in {<<>>, KEY_A, ROOT}, value \in LeafValues}

\* The nodes handed to the method of a caching instance.
CachedNodes ==
    {NodeData(1, KEY_A, value) :
        value \in {Undefined, Null, Bool(TRUE), Num(-12), Str(TXT_AA), Str(TXT_NULL)}}
    \cup {NodeData(0, ROOT, Undefined)}

StringShingleSizes == {1, 2, 3, 5}

StringOptions ==
    {[shingleSize |-> k, frequencyThreshold |-> t,
      enableNodeStringCache |-> c, nodeStringCacheSize |-> 2,
      numHashFunctions |-> Rat(4, 1), numGroups |-> Rat(2, 1)] :
        k \in StringShingleSizes, t \in FrequencyThresholds, c \in BOOLEAN}

\* The method's local variables at the head of the rolling loop; insertions
\* counts the add / set calls made on the shingle collection so far.
Locals(targetString, i, limit, currentHash, insertions, shingleCollection) ==
    [targetString |-> targetString, i |-> i, limit |-> limit,
     currentHash |-> currentHash, insertions |-> insertions,
     shingleCollection |-> shingleCollection]

\* A mutant of StatelessBegin: the rolling loop stops one window early.
StatelessBeginShortLimit(self, node, shingleCollection) ==
    LET k == self.options.shingleSize
        targetString == NodeString(node)
    IN  IF Len(targetString) >= k
        THEN LET currentHash == PolyLoop(targetString, 0, k, 0)
             IN  Locals(targetString, 0, Len(targetString) - k - 1, currentHash, 1,
                     AddShingle(self, shingleCollection,
                                murmurhash3_32_gc_single_int(currentHash, 0)))
        ELSE IF Len(targetString) > 0
        THEN LET polyHash == PolyLoop(targetString, 0, Len(targetString), 0)
             IN  Locals(targetString, 0, 0, polyHash, 1,
                     AddShingle(self, shingleCollection,
                                murmurhash3_32_gc_single_int(polyHash, 0)))
        ELSE Locals(targetString, 0, 0, 0, 0, shingleCollection)

\* The stateless path up to the rolling loop: the node string, then the hash
\* of the first window and its insertion, or the one insertion for a string
\* shorter than k, or nothing for the empty string.
StatelessBegin(self, node, shingleCollection) ==
    LET k == self.options.shingleSize
        targetString == NodeString(node)
    IN  IF Len(targetString) >= k
        THEN LET currentHash == PolyLoop(targetString, 0, k, 0)
             IN  Locals(targetString, 0, Len(targetString) - k, currentHash, 1,
                     AddShingle(self, shingleCollection,
                                murmurhash3_32_gc_single_int(currentHash, 0)))
        ELSE IF Len(targetString) > 0
        THEN LET polyHash == PolyLoop(targetString, 0, Len(targetString), 0)
             IN  Locals(targetString, 0, 0, polyHash, 1,
                     AddShingle(self, shingleCollection,
                                murmurhash3_32_gc_single_int(polyHash, 0)))
        ELSE Locals(targetString, 0, 0, 0, 0, shingleCollection)

\* One iteration of the rolling loop.
StatelessRoll(self, l) ==
    LET k == self.options.shingleSize
        charOutCode == l.targetString[l.i + 1]
        charInCode == l.targetString[l.i + k + 1]
        currentHash == Roll(self.rollingHashPower, l.currentHash,
                            charOutCode, charInCode)
    IN  Locals(l.targetString, l.i + 1, l.limit, currentHash, l.insertions + 1,
            AddShingle(self, l.shingleCollection,
                       murmurhash3_32_gc_single_int(currentHash, 0)))

\* this._updateShingleFrequenciesForNode(node, shingleCollection) is entered
\* with an empty collection.
StringStart(node) ==
    /\ phase = "ready"
    /\ ~hasher.options.enableNodeStringCache
    /\ run.pc = "idle"
    /\ LET l == StatelessBegin(hasher, node, EmptyCollection(hasher))
       IN  /\ run' = [pc |-> IF Len(l.targetString) >= hasher.options.shingleSize
                             THEN "roll" ELSE "return",
                      node |-> node, targetString |-> l.targetString,
                      i |-> l.i, limit |-> l.limit,
                      currentHash |-> l.currentHash,
                      insertions |-> l.insertions]
           /\ acc' = [collection |-> l.shingleCollection, cache |-> NoCache]
    /\ UNCHANGED <<phase, thrown, hasher, cache, calls, last, returned>>

\* for (let i = 0; i < limit; i++): one iteration.
StringRoll ==
    /\ run.pc = "roll"
    /\ run.i < run.limit
    /\ LET l == StatelessRoll(hasher,
                    Locals(run.targetString, run.i, run.limit, run.currentHash,
                           run.insertions, acc.collection))
       IN  /\ run' = [run EXCEPT !.i = l.i, !.currentHash = l.currentHash,
                                 !.insertions = l.insertions]
           /\ acc' = [acc EXCEPT !.collection = l.shingleCollection]
    /\ UNCHANGED <<phase, thrown, hasher, cache, calls, last, returned>>

\* The loop's condition fails.
StringLoopExit ==
    /\ run.pc = "roll"
    /\ run.i >= run.limit
    /\ run' = [run EXCEPT !.pc = "return"]
    /\ UNCHANGED <<phase, thrown, hasher, cache, calls, last, returned, acc>>

\* The method returns; the caller's collection holds what was inserted.
StringReturn ==
    /\ run.pc = "return"
    /\ run' = [run EXCEPT !.pc = "done"]
    /\ last' = [op |-> "_updateShingleFrequenciesForNode", node |-> run.node,
                result |-> acc.collection]
    /\ UNCHANGED <<phase, thrown, hasher, cache, calls, returned, acc>>

\* this._updateShingleFrequenciesForNode(node, shingleCollection) on a caching
\* instance: the cache is probed with the node's string, then replayed or
\* filled.  The collection is the one the previous call of the method left,
\* or the empty one of a public call that begins (fresh).
StringCached(node, fresh) ==
    /\ phase = "ready"
    /\ hasher.options.enableNodeStringCache
    /\ calls < MaxCalls
    /\ (calls = 0 \/ last.op = "clearNodeStringCache") => fresh
    /\ LET shingleCollection == IF fresh THEN EmptyCollection(hasher)
                                ELSE acc.collection
           out == CachedUpdate(hasher, cache, node, shingleCollection)
       IN  /\ cache' = out.cache
           /\ acc' = [collection |-> out.collection, cache |-> NoCache]
           /\ last' = [op |-> "_updateShingleFrequenciesForNode", node |-> node,
                       shingleInputString |-> ShingleInputString(node),
                       hit |-> CacheHas(cache, ShingleInputString(node)),
                       cacheBefore |-> cache,
                       collectionBefore |-> shingleCollection,
                       result |-> out.collection]
    /\ calls' = calls + 1
    /\ UNCHANGED <<phase, thrown, hasher, returned, run>>

\* hasher.clearNodeStringCache() between two public calls.
StringCacheClear ==
    /\ phase = "ready"
    /\ hasher.options.enableNodeStringCache /\ cache.present
    /\ calls < MaxCalls
    /\ cache' = CacheAfterClear(cache)
    /\ last' = [op |-> "clearNodeStringCache", cacheBefore |-> cache]
    /\ calls' = calls + 1
    /\ UNCHANGED <<phase, thrown, hasher, returned, run, acc>>

InitString == \E options \in StringOptions : Constructed(options)

NextString ==
    \/ \E node \in StringNodes : StringStart(node)
    \/ \E node \in CachedNodes, fresh \in BOOLEAN : StringCached(node, fresh)
    \/ StringCacheClear
    \/ StringRoll
    \/ StringLoopExit
    \/ StringReturn

SpecString == InitString /\ [][NextString]_vars

\* The number of insertions a collection records: its size for a Set of
\* distinct hashes, the sum of its counts for a Map.
RECURSIVE SumOfCounts(_, _)
SumOfCounts(counts, keys) ==
    IF keys = {} THEN 0
    ELSE LET h == CHOOSE x \in keys : TRUE
         IN  counts[h] + SumOfCounts(counts, keys \ {h})

\* C19: on the stateless path a node string S with shingle length k gets
\* exactly len(S) - k + 1 insertions when len(S) >= k, exactly one insertion,
\* of the hash of the whole string, when 0 < len(S) < k, and none when
\* len(S) = 0; a Map collection's counts add up to that number, and the
\* collection is the one the method's loop computes in one go.
C19_ShingleCountPerString ==
    (run.pc = "done") =>
        LET k == hasher.options.shingleSize
            S == NodeString(run.node)
        IN  /\ run.targetString = S
            /\ (Len(S) >= k) => run.insertions = Len(S) - k + 1
            /\ (0 < Len(S) /\ Len(S) < k) =>
                  /\ run.insertions = 1
                  /\ last.result = AddShingle(hasher, EmptyCollection(hasher),
                                              DirectShingleHash(S))
            /\ (Len(S) = 0) =>
                  /\ run.insertions = 0
                  /\ last.result = EmptyCollection(hasher)
            /\ ~hasher.useSetForShingles =>
                  SumOfCounts(last.result, DOMAIN last.result) = run.insertions
            /\ last.result = StatelessUpdate(hasher, run.node, EmptyCollection(hasher))

C19_Witness ==
    /\ run.pc = "done"
    /\ hasher.options.shingleSize = 3
    /\ ~hasher.useSetForShingles
    /\ run.targetString = TXT_ABCD
    /\ run.insertions = 2

\* C20: at every position of the rolling loop the incrementally updated hash
\* is the polynomial hash of the window at that position, computed directly,
\* and the finalized hash of every window passed so far is in the collection;
\* the hash of a window is therefore decided by the window's code units alone.
C20_RollingHashIsPolynomialHash ==
    (run.pc \in {"roll", "return", "done"}
        /\ Len(run.targetString) >= hasher.options.shingleSize) =>
        LET k == hasher.options.shingleSize
            S == run.targetString
            hashes == IF hasher.useSetForShingles THEN acc.collection
                      ELSE DOMAIN acc.collection
        IN  /\ run.currentHash = PolySum(SubSeq(S, run.i + 1, run.i + k), 1)
            /\ \A p \in 0..run.i :
                  DirectShingleHash(SubSeq(S, p + 1, p + k)) \in hashes

C20_Witness ==
    /\ run.pc = "roll"
    /\ hasher.options.shingleSize = 2
    /\ run.i = 2
    /\ run.targetString[1] = 65535
    /\ SubSeq(run.targetString, 3, 4) = SubSeq(run.targetString, 1, 2)
    /\ Len(run.targetString) > 4

\* ------------------------------------------------------------------------
\* The text of a leaf value, stated on the text itself.
\* ------------------------------------------------------------------------
\* The number a run of decimal digits denotes.
RECURSIVE DecimalValue(_)
DecimalValue(text) ==
    IF Len(text) = 0 THEN 0
    ELSE 10 * DecimalValue(SubSeq(text, 1, Len(text) - 1)) + (text[Len(text)] - 48)

\* text is the decimal numeral of n: an optional minus sign, then digits with
\* no leading zero, denoting n.
IsDecimalTextOf(text, n) ==
    LET digits == IF Len(text) > 0 /\ text[1] = 45 THEN Tail(text) ELSE text
    IN  /\ Len(digits) > 0
        /\ \A i \in 1..Len(digits) : digits[i] \in 48..57
        /\ (Len(digits) > 1) => digits[1] # 48
        /\ (digits # text) <=> (n < 0)
        /\ DecimalValue(digits) = (IF n < 0 THEN 0 - n ELSE n)

\* text is the text of the value: the string itself, the decimal numeral, the
\* boolean's word, or "null".
IsTextOf(text, value) ==
    CASE value.t = "string" -> text = value.s
      [] value.t = "number" -> IsDecimalTextOf(text, value.n)
      [] value.t = "boolean" -> text = (IF value.b THEN <<116, 114, 117, 101>>
                                        ELSE <<102, 97, 108, 115, 101>>)
      [] value.t = "null" -> text = <<110, 117, 108, 108>>
      [] OTHER -> FALSE

\* str is the canonical string of the node: its path alone when it has no
\* value, else path, ":" and the text of the value.
IsCanonicalStringOf(str, node) ==
    IF node.value = Undefined THEN str = node.path
    ELSE /\ Len(str) > Len(node.path)
         /\ SubSeq(str, 1, Len(node.path)) = node.path
         /\ str[Len(node.path) + 1] = 58
         /\ IsTextOf(SubSeq(str, Len(node.path) + 2, Len(str)), node.value)

\* C21: the string the stateless path shingles and the string the caching
\* path uses as its cache key are the node's canonical string: the path alone
\* when the node has no value, else path + ":" + the text of the value (the
\* string itself, the decimal numeral, "true" / "false", "null"); so both
\* paths build the same string for the same node.
C21_CanonicalString ==
    /\ (run.pc \in {"roll", "return", "done"}) =>
          IsCanonicalStringOf(run.targetString, run.node)
    /\ (last.op = "_updateShingleFrequenciesForNode"
           /\ hasher.options.enableNodeStringCache) =>
          /\ IsCanonicalStringOf(last.shingleInputString, last.node)
          /\ CacheHas(cache, last.shingleInputString)
          /\ last.shingleInputString = NodeString(last.node)

C21_Witness ==
    /\ hasher.options.enableNodeStringCache
    /\ last.op = "_updateShingleFrequenciesForNode"
    /\ last.node.value = Str(TXT_NULL)
    /\ last.hit
    /\ Len(cache.entries) = 2

\* ------------------------------------------------------------------------
\* compareSketches: what reaches the estimator.
\* ------------------------------------------------------------------------
ForwardingParameters == {"similarityThreshold", "errorTolerance", "numGroups"}

\* The caller supplied the option: the key is there and holds a value.
Supplied(estimationOptions, f) == OptionOf(estimationOptions, f) # Undefined

BothSupplied(estimationOptions) ==
    /\ Supplied(estimationOptions, "similarityThreshold")
    /\ Supplied(estimationOptions, "errorTolerance")

\* The three parameters reach the estimator when both are supplied: the
\* caller's two values and the instance's numGroups.
ThreeForwarded(self, estimationOptions, forwarded) ==
    /\ ForwardingParameters \subseteq DOMAIN forwarded
    /\ forwarded.similarityThreshold = estimationOptions.similarityThreshold
    /\ forwarded.errorTolerance = estimationOptions.errorTolerance
    /\ forwarded.numGroups = self.numGroups

\* Every key besides the three parameters reaches the estimator with the
\* caller's value, and the estimator gets no key from anywhere else.
OthersPassedThrough(estimationOptions, forwarded) ==
    /\ \A f \in DOMAIN estimationOptions \ ForwardingParameters :
          f \in DOMAIN forwarded /\ forwarded[f] = estimationOptions[f]
    /\ DOMAIN forwarded \subseteq DOMAIN estimationOptions \cup ForwardingParameters

\* C22 as stated: the three parameters are passed exactly when both
\* similarityThreshold and errorTolerance are supplied, and none of the three
\* keys reaches the estimator otherwise; every other key is passed through.
C22_OptionForwarding ==
    (last.op = "compareSketches") =>
        /\ BothSupplied(last.estimationOptions) =>
              ThreeForwarded(hasher, last.estimationOptions, last.forwarded)
        /\ ~BothSupplied(last.estimationOptions) =>
              DOMAIN last.forwarded \cap ForwardingParameters = {}
        /\ OthersPassedThrough(last.estimationOptions, last.forwarded)

\* C22, amended: as stated for the caller's similarityThreshold and
\* errorTolerance and for the instance's numGroups; a numGroups key of the
\* caller's own is replaced by the instance's value when both parameters are
\* supplied and reaches the estimator unchanged when they are not.
C22_OptionForwardingExceptCallerNumGroups ==
    (last.op = "compareSketches") =>
        /\ BothSupplied(last.estimationOptions) =>
              ThreeForwarded(hasher, last.estimationOptions, last.forwarded)
        /\ ~BothSupplied(last.estimationOptions) =>
              /\ DOMAIN last.forwarded
                     \cap {"similarityThreshold", "errorTolerance"} = {}
              /\ ("numGroups" \in DOMAIN last.forwarded) <=>
                     ("numGroups" \in DOMAIN last.estimationOptions)
              /\ ("numGroups" \in DOMAIN last.forwarded) =>
                     last.forwarded.numGroups = last.estimationOptions.numGroups
        /\ OthersPassedThrough(last.estimationOptions, last.forwarded)

C22_Witness ==
    /\ last.op = "compareSketches"
    /\ BothSupplied(last.estimationOptions)
    /\ "numGroups" \in DOMAIN last.estimationOptions
    /\ last.estimationOptions.numGroups # hasher.numGroups
    /\ last.forwarded.numGroups = hasher.numGroups

\* C23: on a caching instance every generateShingleSet call of the session,
\* whatever calls and cache clearings came before it and whatever the cache
\* held or evicted, returned the set that the first call on a fresh instance
\* of the same configuration returns for the document.
C23_HistoryIndependence ==
    hasher.options.enableNodeStringCache =>
        \A r \in returned.shingleSets :
            r.result = generateShingleSet(hasher,
                           NewCache(hasher.options.nodeStringCacheSize),
                           r.json).result

C23_Witness ==
    /\ hasher.options.enableNodeStringCache
    /\ hasher.options.frequencyThreshold = 2
    /\ calls = MaxCalls
    /\ last.op = "generateShingleSet"
    /\ last.json = Arr(<<Num(1), Str(TXT_AA)>>)
    /\ last.result # {}
    /\ Len(last.cacheBefore.entries) = 2
    /\ CacheHas(last.cacheBefore, ROOT)
    /\ ~CacheHas(cache, ROOT)
    /\ \E r \in returned.shingleSets :
          r.json = last.json /\ r.cacheBefore.entries = <<>>

\* The distinct shingle hashes of a string: the hash of each of its windows.
DistinctShingleHashes(k, str) ==
    LET w == Windows(k, str)
    IN  {DirectShingleHash(w[p]) : p \in DOMAIN w}

\* The entries of a cache, whatever their order of use.
EntrySet(c) == {c.entries[i] : i \in 1..Len(c.entries)}

\* How often a hash is in a collection: 0 or 1 for a Set, its count for a Map.
CountIn(self, shingleCollection, h) ==
    IF self.useSetForShingles
    THEN (IF h \in shingleCollection THEN 1 ELSE 0)
    ELSE (IF h \in DOMAIN shingleCollection THEN shingleCollection[h] ELSE 0)

HashesIn(self, shingleCollection) ==
    IF self.useSetForShingles THEN shingleCollection ELSE DOMAIN shingleCollection

\* C24: on a caching instance every cache entry with key S holds exactly the
\* distinct shingle hashes of S under the instance's shingleSize; a call of
\* the method that hit the cache left the cache's entries as they were and
\* added each hash of the entry once to the collection (a Set gains the
\* hashes, a Map's count of each goes up by one) and nothing else.
C24_CacheContent ==
    hasher.options.enableNodeStringCache =>
        /\ \A e \in EntrySet(cache) :
              e.value = DistinctShingleHashes(hasher.options.shingleSize, e.key)
        /\ (last.op = "_updateShingleFrequenciesForNode" /\ last.hit) =>
              LET entry == CacheValue(last.cacheBefore, last.shingleInputString)
              IN  /\ EntrySet(cache) = EntrySet(last.cacheBefore)
                  /\ HashesIn(hasher, last.result)
                         = HashesIn(hasher, last.collectionBefore) \cup entry
                  /\ \A h \in HashesIn(hasher, last.result) :
                        CountIn(hasher, last.result, h) =
                            IF h \in entry /\ ~hasher.useSetForShingles
                            THEN CountIn(hasher, last.collectionBefore, h) + 1
                            ELSE IF h \in entry THEN 1
                            ELSE CountIn(hasher, last.collectionBefore, h)

C24_Witness ==
    /\ hasher.options.enableNodeStringCache
    /\ ~hasher.useSetForShingles
    /\ hasher.options.shingleSize = 1
    /\ last.op = "_updateShingleFrequenciesForNode"
    /\ last.hit
    /\ last.node.value = Str(TXT_AA)
    /\ Len(cache.entries) = 2
    /\ cache # last.cacheBefore
    /\ \E h \in DOMAIN last.result : last.result[h] = 3

\* ------------------------------------------------------------------------
\* One call on a fresh instance, compared with the call an instance makes that
\* differs in one option (SpecConf).
\* ------------------------------------------------------------------------
ConfOptions ==
    {[shingleSize |-> k, subtreeDepth |-> d, frequencyThreshold |-> t,
      preserveArrayOrder |-> o, enableNodeStringCache |-> c,
      nodeStringCacheSize |-> 2,
      numHashFunctions |-> Rat(4, 1), numGroups |-> Rat(2, 1)] :
        k \in {1, 5}, d \in SubtreeDepths, t \in FrequencyThresholds,
        o \in BOOLEAN, c \in BOOLEAN}

InitConf == \E options \in ConfOptions : Constructed(options)

NextConf == calls = 0 /\ \E json \in Docs : GenerateShingleSet(json)

SpecConf == InitConf /\ [][NextConf]_vars

\* The instance with another subtreeDepth.
WithSubtreeDepth(self, d) == [self EXCEPT !.options.subtreeDepth = d]

\* The hashes of the windows of the strings of all nodes of a document.
AllNodeHashes(self, json) ==
    LET nodeMap == buildCSRFromJSON(self, json).nodeMap
    IN  UNION {DistinctShingleHashes(self.options.shingleSize, NodeString(nodeMap[i])) :
               i \in 1..Len(nodeMap)}

\* C25: with frequencyThreshold = 1 the feature set is the union over all
\* nodes of the document of the shingle hashes of the node's string, and it is
\* the set the instance returns with any other subtreeDepth.
C25_DepthIrrelevantAtThresholdOne ==
    (Called /\ hasher.options.frequencyThreshold = 1) =>
        /\ last.result = AllNodeHashes(hasher, last.json)
        /\ \A d \in SubtreeDepths :
              generateShingleSet(WithSubtreeDepth(hasher, d), last.cacheBefore,
                                 last.json).result = last.result

C25_Witness ==
    /\ Called
    /\ hasher.options.frequencyThreshold = 1
    /\ hasher.options.subtreeDepth = 0
    /\ hasher.options.shingleSize = 5
    /\ last.json = Obj(<<Member(KEY_A,
                         Obj(<<Member(KEY_A, Obj(<<Member(KEY_A, Num(1))>>))>>))>>)
    /\ Cardinality(last.result) >= 4

\* ------------------------------------------------------------------------
\* The calls one generateShingleSet call makes (SpecRun).
\* ------------------------------------------------------------------------
\* Every node has been a start node; the collection is about to be thresholded.
AllSubtreesDone ==
    run.pc = "extract" /\ run.startNodeId >= Len(run.csrData.nodeMap)

\* How often x is in the sequence.
TimesIn(seq, x) == Cardinality({i \in 1..Len(seq) : seq[i] = x})

\* C26: in one generateShingleSet call every node is the start of exactly one
\* traversal, and a node at tree depth h (the root at 0) is handed to the
\* shingle extractor exactly min(h, subtreeDepth) + 1 times.
C26_NodeVisitMultiplicity ==
    AllSubtreesDone =>
        LET ids == 0..(Len(run.csrData.nodeMap) - 1)
        IN  /\ \A n \in ids : TimesIn(run.starts, n) = 1
            /\ Len(run.starts) = Len(run.csrData.nodeMap)
            /\ \A n \in ids :
                  TimesIn(run.passed, n) =
                      Min({Hops(run.csrData, 0, n), hasher.options.subtreeDepth}) + 1
            /\ \A i \in 1..Len(run.passed) : run.passed[i] \in ids

C26_Witness ==
    /\ AllSubtreesDone
    /\ hasher.options.subtreeDepth = 1
    /\ \E n \in 0..(Len(run.csrData.nodeMap) - 1) :
          /\ Hops(run.csrData, 0, n) = 3
          /\ TimesIn(run.passed, n) = 2
    /\ TimesIn(run.passed, 0) = 1

\* ------------------------------------------------------------------------
\* One call on a fresh instance, compared with the call on a related document
\* (SpecRel): the documents of the pool and some with more members, deeper
\* nesting and leaves of every type.
\* ------------------------------------------------------------------------
TXT_ONE == <<49>>                       \* "1"
TXT_MINUS_TWELVE == <<45, 49, 50>>      \* "-12"

MoreDocs ==
    {Obj(<<Member(KEY_A, Num(1)), Member(KEY_B, Str(TXT_AA)), Member(KEY_X, Num(1))>>),
     Obj(<<Member(KEY_A, Obj(<<Member(KEY_A, Num(1)), Member(KEY_X, Str(TXT_AA))>>)),
           Member(KEY_X, Arr(<<Num(1), Str(TXT_AA)>>))>>),
     Arr(<<Obj(<<Member(KEY_A, Num(1)), Member(KEY_B, Num(1))>>),
           Obj(<<Member(KEY_B, Num(1)), Member(KEY_A, Num(1))>>)>>),
     Obj(<<Member(KEY_A, Obj(<<Member(KEY_B, Obj(<<Member(KEY_A, Num(1))>>))>>)),
           Member(KEY_B, Obj(<<Member(KEY_A, Obj(<<Member(KEY_B, Str(TXT_AA))>>))>>))>>),
     Obj(<<Member(KEY_A, Null), Member(KEY_B, Str(TXT_NULL))>>),
     Arr(<<Bool(TRUE), Str(TXT_TRUE), Num(1), Str(TXT_ONE)>>),
     Obj(<<Member(KEY_A, Arr(<<Num(-12), Bool(FALSE)>>)),
           Member(KEY_B, Str(TXT_MINUS_TWELVE))>>),
     Num(0), Str(TXT_ONE), Str(TXT_FALSE)}

RelDocs == Docs \cup MoreDocs

RelOptions ==
    {[shingleSize |-> k, subtreeDepth |-> d, frequencyThreshold |-> t,
      preserveArrayOrder |-> o, enableNodeStringCache |-> c, ignoreKeys |-> ig,
      nodeStringCacheSize |-> 2,
      numHashFunctions |-> Rat(4, 1), numGroups |-> Rat(2, 1)] :
        k \in {1, 5}, d \in {0, 2}, t \in FrequencyThresholds,
        o \in BOOLEAN, c \in BOOLEAN, ig \in IgnoreKeySets}

InitRel == \E options \in RelOptions : Constructed(options)

NextRel == calls = 0 /\ \E json \in RelDocs : GenerateShingleSet(json)

SpecRel == InitRel /\ [][NextRel]_vars

\* The documents obtained from v by reordering the members of one object of
\* v, at any depth.
RECURSIVE WithPermutedMembers(_)
WithPermutedMembers(v) ==
    CASE v.t = "object" ->
            {Obj([i \in 1..Len(v.m) |-> v.m[pi[i]]]) : pi \in Permutations(1..Len(v.m))}
            \cup UNION {{Obj([v.m EXCEPT ![i].v = w]) : w \in WithPermutedMembers(v.m[i].v)} :
                        i \in 1..Len(v.m)}
      [] v.t = "array" ->
            UNION {{Arr([v.e EXCEPT ![i] = w]) : w \in WithPermutedMembers(v.e[i])} :
                   i \in 1..Len(v.e)}
      [] OTHER -> {}

\* C27: reordering the members of any object of the document leaves the set
\* generateShingleSet returns unchanged, under every configuration.
C27_ObjectKeyOrderInvariance ==
    Called =>
        \A other \in WithPermutedMembers(last.json) : ResultFor(other) = last.result

C27_Witness ==
    /\ Called
    /\ hasher.options.frequencyThreshold = 2
    /\ hasher.options.shingleSize = 5
    /\ hasher.options.subtreeDepth = 2
    /\ hasher.ignoreKeys = {}
    /\ last.result # {}
    /\ last.json.t = "object"
    /\ \E other \in WithPermutedMembers(last.json) :
          buildCSRFromJSON(hasher, other).nodeMap
              # buildCSRFromJSON(hasher, last.json).nodeMap
    /\ \E i \in 1..Len(last.json.m) : ~IsLeafValue(last.json.m[i].v)

\* The instance the constructor makes when only frequencyThreshold differs:
\* the option and the choice between Set and Map that follows from it.
WithFrequencyThreshold(self, t) ==
    [self EXCEPT !.options.frequencyThreshold = t, !.useSetForShingles = (t = 1)]

HigherThresholds == {2, 3}

\* What the instance with frequencyThreshold t returns for the last document.
ResultAtThreshold(t) ==
    generateShingleSet(WithFrequencyThreshold(hasher, t), last.cacheBefore,
                       last.json).result

\* C28: for one document and otherwise the same configuration, the set
\* returned under a higher frequencyThreshold is a subset of the set returned
\* under a lower one, from 1 (Set) to 2 (Map) as from 2 to 3.
C28_ThresholdMonotonicity ==
    Called =>
        \A t2 \in HigherThresholds :
            (hasher.options.frequencyThreshold < t2) =>
                ResultAtThreshold(t2) \subseteq last.result

C28_Witness ==
    /\ Called
    /\ hasher.options.frequencyThreshold = 1
    /\ hasher.options.enableNodeStringCache
    /\ ResultAtThreshold(2) # last.result
    /\ ResultAtThreshold(3) # ResultAtThreshold(2)
    /\ ResultAtThreshold(3) # {}

\* The string of the root node: "$root" for an array or an object, "$root:"
\* and the text of the value for a scalar or null.
RootString(json) ==
    IF IsLeafValue(json) THEN ROOT \o COLON \o ValueString(json) ELSE ROOT

\* C29: with frequencyThreshold = 1 the feature set holds the shingle hashes
\* of the root node's string; for an array or object root that string is
\* "$root", so the hashes of "$root" (there is at least one) are in the
\* feature set of every composite document, and the feature sets of {} and []
\* are those hashes and nothing else.
C29_SharedRootFeature ==
    (Called /\ hasher.options.frequencyThreshold = 1) =>
        LET k == hasher.options.shingleSize
            nodeMap == buildCSRFromJSON(hasher, last.json).nodeMap
        IN  /\ NodeString(nodeMap[1]) = RootString(last.json)
            /\ DistinctShingleHashes(k, RootString(last.json)) \subseteq last.result
            /\ ~IsLeafValue(last.json) =>
                  /\ DistinctShingleHashes(k, ROOT) # {}
                  /\ \A other \in {Obj(<<>>), Arr(<<>>)} :
                        /\ ResultFor(other) = DistinctShingleHashes(k, ROOT)
                        /\ ResultFor(other) \subseteq last.result

C29_Witness ==
    /\ Called
    /\ hasher.options.frequencyThreshold = 1
    /\ hasher.options.shingleSize = 5
    /\ last.json = Obj(<<Member(KEY_A, Num(1)), Member(KEY_X, Str(TXT_AA))>>)
    /\ Cardinality(last.result) = 3
    /\ Cardinality(ResultFor(Arr(<<>>))) = 1

\* The string that reads as the leaf does, for the numbers, booleans and null
\* of the documents: 1 and "1", -12 and "-12", true and "true", null and "null".
StringTwin(leaf) ==
    CASE leaf = Num(0) -> Str(<<48>>)
      [] leaf = Num(1) -> Str(<<49>>)
      [] leaf = Num(-12) -> Str(<<45, 49, 50>>)
      [] leaf = Bool(TRUE) -> Str(<<116, 114, 117, 101>>)
      [] leaf = Bool(FALSE) -> Str(<<102, 97, 108, 115, 101>>)
      [] leaf = Null -> Str(<<110, 117, 108, 108>>)

\* The documents obtained from v by replacing one leaf that is a number, a
\* boolean or null by the string with the same text.
RECURSIVE WithLeafAsString(_)
WithLeafAsString(v) ==
    CASE v.t = "object" ->
            UNION {{Obj([v.m EXCEPT ![i].v = w]) : w \in WithLeafAsString(v.m[i].v)} :
                   i \in 1..Len(v.m)}
      [] v.t = "array" ->
            UNION {{Arr([v.e EXCEPT ![i] = w]) : w \in WithLeafAsString(v.e[i])} :
                   i \in 1..Len(v.e)}
      [] v.t = "string" -> {}
      [] OTHER -> {StringTwin(v)}

\* The strings of the nodes of a document, in the order of their ids.
NodeStrings(self, json) ==
    LET nodeMap == buildCSRFromJSON(self, json).nodeMap
    IN  [i \in 1..Len(nodeMap) |-> NodeString(nodeMap[i])]

\* C30: a document in which one leaf that is a number, a boolean or null is
\* replaced by the string with the same text has the same node strings and
\* gets the same set from generateShingleSet, under every configuration.
C30_LeafTypeConflation ==
    Called =>
        \A other \in WithLeafAsString(last.json) :
            /\ NodeStrings(hasher, other) = NodeStrings(hasher, last.json)
            /\ ResultFor(other) = last.result

C30_Witness ==
    /\ Called
    /\ hasher.options.frequencyThreshold = 2
    /\ hasher.options.enableNodeStringCache
    /\ hasher.options.shingleSize = 5
    /\ last.json = Obj(<<Member(KEY_A, Arr(<<Num(-12), Bool(FALSE)>>)),
                         Member(KEY_B, Str(TXT_MINUS_TWELVE))>>)
    /\ Cardinality(WithLeafAsString(last.json)) = 2
    /\ last.result # {}

====
